---- MODULE Spec2Model ----
(***************************************************************************)
(* StudySync: the client pages (doubts feed, ask-doubt, answers, resource  *)
(* sharing, dashboard, signup, login) as state machines over the document  *)
(* store and the authentication service they call.                         *)
(***************************************************************************)
EXTENDS Integers, Sequences, FiniteSets, TLC

(***************************************************************************)
(* Bounds of the model.                                                    *)
(***************************************************************************)
MaxDoubts == 2
MaxPending == 2
MaxNotes == 2
MaxAnswers == 2
MaxRuns == 1
MaxFetches == 2

(***************************************************************************)
(* Values.                                                                 *)
(***************************************************************************)
NoUser == "none"
Users == {"u1", "u2"}
Null == "null"

\* user.displayName of an identity
DisplayName(u) == IF u = "u1" THEN "Asha" ELSE "Ben"

DoubtIds == 1..MaxDoubts

\* ask-doubt/page.tsx: const subjects
subjects == <<"DSA", "DBMS", "OS", "CN", "Maths", "Physics", "Chemistry", "Other">>

(***************************************************************************)
(* Strings.                                                                *)
(***************************************************************************)
StartsWith(s, p) == Len(s) >= Len(p) /\ SubSeq(s, 1, Len(p)) = p

RECURSIVE TrimStart(_)
TrimStart(s) == IF s # "" /\ Head(s) = " " THEN TrimStart(Tail(s)) ELSE s

RECURSIVE TrimEnd(_)
TrimEnd(s) ==
    IF s # "" /\ SubSeq(s, Len(s), Len(s)) = " "
    THEN TrimEnd(SubSeq(s, 1, Len(s) - 1))
    ELSE s

\* String.prototype.trim
Trim(s) == TrimEnd(TrimStart(s))

(***************************************************************************)
(* Form schemas.                                                           *)
(***************************************************************************)
\* ask-doubt formSchema: the set of fields that fail
DoubtFieldErrors(v) ==
    {f \in {"subject", "description"} :
        \/ f = "subject" /\ Len(v.subject) < 1
        \/ f = "description" /\ Len(v.description) < 10}

DoubtSchemaOk(v) == DoubtFieldErrors(v) = {}

RECURSIVE IndexOf(_, _)
\* String.prototype.indexOf for a single character, 1-based; 0 when absent
IndexOf(s, ch) ==
    IF s = "" THEN 0
    ELSE IF Head(s) = ch THEN 1
    ELSE LET r == IndexOf(Tail(s), ch) IN IF r = 0 THEN 0 ELSE r + 1

RECURSIVE LastIndexOf(_, _)
LastIndexOf(s, ch) ==
    IF s = "" THEN 0
    ELSE IF SubSeq(s, Len(s), Len(s)) = ch THEN Len(s)
    ELSE LastIndexOf(SubSeq(s, 1, Len(s) - 1), ch)

\* upload-notes formSchema, refine: the hosts of the YouTube pattern
\* (youtu\.?be stands for "youtube" and "youtu.be")
YouTubeHosts ==
    {"youtube.com", "youtube", "youtu.be", "m.youtube.com", "y2u.be", "yt.be",
     "music.youtube.com", "gaming.youtube.com", "studio.youtube.com",
     "shorts.youtube.com", "youtube-nocookie.com"}

\* /^(https?:\/\/)?(www\.)?(hosts)\/.+$/.test(s)
MatchesYouTube(s) ==
    \E p \in {"", "http://", "https://"}, w \in {"", "www."}, h \in YouTubeHosts :
        LET pre == p \o w \o h \o "/"
        IN  StartsWith(s, pre) /\ Len(s) > Len(pre)

\* /^(https?:\/\/)?(drive\.google\.com)\/.+$/.test(s)
MatchesDrive(s) ==
    \E p \in {"", "http://", "https://"} :
        LET pre == p \o "drive.google.com" \o "/"
        IN  StartsWith(s, pre) /\ Len(s) > Len(pre)

\* z.string().url(): new URL(s) succeeds; on the strings the model submits
\* that is: an absolute URL, a scheme followed by a host
IsUrl(s) ==
    \E p \in {"http://", "https://", "ftp://"} :
        /\ StartsWith(s, p)
        /\ Len(s) > Len(p)
        /\ IndexOf(s, " ") = 0

\* a refinement that accepts either shape whatever the selected type
UrlRefine_AnyShape(t, s) == MatchesYouTube(s) \/ MatchesDrive(s)

\* the refinement of the upload-notes schema
UrlRefine(t, s) ==
    IF t = "youtube" THEN MatchesYouTube(s)
    ELSE IF t = "drive" THEN MatchesDrive(s)
    ELSE TRUE

\* z.enum(["youtube", "drive"])
ResourceTypes == {"youtube", "drive"}

\* upload-notes formSchema: the set of fields that fail; the refinement runs
\* unless a field's type check aborted the object
ShareFieldErrors(v) ==
    {f \in {"topic", "subject", "resourceType", "url"} :
        \/ f = "topic" /\ Len(v.topic) < 5
        \/ f = "subject" /\ Len(v.subject) < 1
        \/ f = "resourceType" /\ v.resourceType \notin ResourceTypes
        \/ f = "url" /\ (\/ ~IsUrl(v.url)
                         \/ /\ v.resourceType \in ResourceTypes
                            /\ ~UrlRefine(v.resourceType, v.url))}

ShareSchemaOk(v) == ShareFieldErrors(v) = {}

\* z.string().email() on the addresses the model submits: a local part, one
\* "@", a domain with a dot and a top-level name of two characters or more
IsEmail(s) ==
    LET at == IndexOf(s, "@")
        dom == SubSeq(s, at + 1, Len(s))
        dot == LastIndexOf(dom, ".")
    IN  /\ at > 1
        /\ IndexOf(dom, "@") = 0
        /\ dot > 1
        /\ Len(dom) - dot >= 2

\* signup formSchema
SignupFieldErrors(v) ==
    {f \in {"name", "email", "password"} :
        \/ f = "name" /\ Len(v.name) < 2
        \/ f = "email" /\ ~IsEmail(v.email)
        \/ f = "password" /\ Len(v.password) < 6}

SignupSchemaOk(v) == SignupFieldErrors(v) = {}

\* login formSchema
LoginFieldErrors(v) ==
    {f \in {"email", "password"} :
        \/ f = "email" /\ ~IsEmail(v.email)
        \/ f = "password" /\ Len(v.password) < 6}

LoginSchemaOk(v) == LoginFieldErrors(v) = {}

\* handleSubmit of the answer form: if (!answer.trim())
AnswerBlank(text) == Trim(text) = ""

\* a resolver that lets every input through
ResolverPasses_Always(ok) == TRUE

\* react-hook-form handleSubmit with zodResolver: onSubmit runs only for
\* values the schema accepts
ResolverPasses(ok) == ok

(***************************************************************************)
(* State.                                                                  *)
(***************************************************************************)
VARIABLES
    configured,      \* firebase.ts: app (hence auth, db) is non-null
    user,            \* AuthProvider: user
    authLoading,     \* AuthProvider: loading
    route,           \* the page that is mounted
    toast,           \* the last toast shown
    unhandled,       \* a promise rejection no handler caught
    doubts,          \* store: collection 'doubts', id -> fields
    feed,            \* DoubtsFeed: doubts, loading
    feedChan,        \* DoubtsFeed: the onSnapshot channel
    feedOwed,        \* store: a snapshot is owed to the feed's channel
    resolvePending,  \* updateDoc('doubts') calls in flight
    ask,             \* AskDoubtPage: form values, field errors, isSubmitting, error
    askPending,      \* addDoc('doubts') calls in flight
    notes,           \* store: collection 'notes'
    share,           \* ShareResourcePage: form values, field errors, isSubmitting, error
    sharePending,    \* addDoc('notes') calls in flight
    idents,          \* authentication service: the registered emails
    profiles,        \* store: collection 'users', uid -> fields
    signup,          \* SignupPage: form values, field errors, loading, error
    signRuns,        \* SignupPage.onSubmit: the runs in progress
    signDone,        \* SignupPage.onSubmit: the run that returned last
    login,           \* LoginPage: form values, field errors, loading
    loginPending,    \* signInWithEmailAndPassword calls in flight
    answers,         \* store: collection 'answers'
    dlg,             \* the doubt whose DoubtDetailsDialog is open
    alist,           \* AnswerList: answers, loading, fetchError
    alistChan,       \* AnswerList: the onSnapshot channel
    alistOwed,       \* store: a snapshot is owed to the answer list's channel
    ansForm,         \* DoubtDetailsDialog of each card: answer, isSubmitting
    ansPending,      \* addDoc('answers') calls in flight
    lib,             \* NotesPage: resources, loading, error
    libChan,         \* NotesPage: the onSnapshot channel
    libOwed,         \* store: a snapshot is owed to the library's channel
    dash,            \* DashboardPage: the three lists, the three errors, loading
    fetches,         \* DashboardPage.fetchData: the runs in flight
    channels         \* listeners registered and not unsubscribed, per subscriber

authV == <<configured, user, authLoading>>
shellV == <<route, toast, unhandled>>
feedV == <<feed, feedChan, feedOwed>>
askV == <<ask, askPending>>
shareV == <<share, sharePending>>
signV == <<signup, signRuns, signDone>>
loginV == <<login, loginPending>>
dlgV == <<dlg, alist, alistChan, alistOwed, ansForm>>
libV == <<lib, libChan, libOwed>>
dashV == <<dash, fetches>>
storeV == <<doubts, notes, answers, idents, profiles>>

vars == <<authV, shellV, storeV, feedV, resolvePending, askV, shareV, signV, loginV,
          dlgV, ansPending, libV, dashV, channels>>

FeedInit == [doubts |-> <<>>, loading |-> TRUE]

AskInit == [subject |-> "", description |-> "", fieldErrors |-> {},
            isSubmitted |-> FALSE, isSubmitting |-> FALSE, error |-> Null]

ShareInit == [topic |-> "", subject |-> "", description |-> "",
              resourceType |-> "youtube", url |-> "", fieldErrors |-> {},
              isSubmitted |-> FALSE, isSubmitting |-> FALSE, error |-> Null]

SignupInit == [name |-> "", email |-> "", password |-> "", fieldErrors |-> {},
               isSubmitted |-> FALSE, loading |-> FALSE, error |-> Null]

LoginInit == [email |-> "", password |-> "", fieldErrors |-> {},
              isSubmitted |-> FALSE, loading |-> FALSE]

\* no dialog is open
NoDoubt == 0

AlistInit == [answers |-> <<>>, loading |-> TRUE, fetchError |-> Null]

AnsFormInit == [d \in DoubtIds |-> [answer |-> "", isSubmitting |-> FALSE]]

LibInit == [resources |-> <<>>, loading |-> TRUE, error |-> Null]

Tabs == {"doubts", "notes", "answers"}

DashInit == [list |-> [t \in Tabs |-> <<>>], error |-> [t \in Tabs |-> Null],
             loading |-> TRUE]

(***************************************************************************)
(* The document store.                                                     *)
(***************************************************************************)
\* the id addDoc gives a new document of a collection
NewId(coll) == Cardinality(DOMAIN coll) + 1

\* serverTimestamp(): a later write of a collection gets a later stamp
\* (stamps are only compared within one collection)
ServerTimestamp(coll) == Cardinality(DOMAIN coll) + 1

\* the document addDoc stores; createdAt: serverTimestamp()
NewDoc(coll, fields) == [createdAt |-> ServerTimestamp(coll)] @@ fields

\* { id: doc.id, ...doc.data() }
DocsOf(coll) == {[id |-> i] @@ coll[i] : i \in DOMAIN coll}

\* orderBy("createdAt", "asc"), ties by document id
Before(a, b) ==
    \/ a.createdAt < b.createdAt
    \/ a.createdAt = b.createdAt /\ a.id <= b.id

RECURSIVE OrderAsc(_)
OrderAsc(S) ==
    IF S = {} THEN <<>>
    ELSE LET m == CHOOSE d \in S : \A e \in S : Before(d, e)
         IN <<m>> \o OrderAsc(S \ {m})

RECURSIVE Reverse(_)
Reverse(s) == IF s = <<>> THEN <<>> ELSE Append(Reverse(Tail(s)), Head(s))

\* orderBy("createdAt", "desc")
OrderDesc(S) == Reverse(OrderAsc(S))

\* the feed's query with the order reversed: oldest first
DoubtsQuery_Asc == OrderAsc(DocsOf(doubts))

\* query(collection(db, "doubts"), orderBy("createdAt", "desc"))
DoubtsQuery == OrderDesc(DocsOf(doubts))

RemoveAt(s, i) == SubSeq(s, 1, i - 1) \o SubSeq(s, i + 1, Len(s))

\* a component instance that unmounts no longer receives its calls' state updates
Unlive(s) == [i \in DOMAIN s |-> [s[i] EXCEPT !.live = FALSE]]

(***************************************************************************)
(* Init.                                                                   *)
(***************************************************************************)
\* AuthProvider after its effect ran: subscribed, or not loading when auth is null
InitAuth ==
    /\ configured \in BOOLEAN
    /\ user = NoUser
    /\ authLoading = configured

InitShell ==
    /\ toast = Null
    /\ unhandled = FALSE

InitStore ==
    /\ doubts = <<>>
    /\ notes = <<>>
    /\ answers = <<>>
    /\ idents = {}
    /\ profiles = <<>>

InitFlights ==
    /\ resolvePending = <<>>
    /\ askPending = <<>>
    /\ sharePending = <<>>
    /\ signRuns = <<>>
    /\ signDone = <<>>
    /\ loginPending = <<>>
    /\ ansPending = <<>>
    /\ fetches = <<>>

\* no page with state is mounted
InitPages ==
    /\ channels = [feed |-> 0, alist |-> 0, lib |-> 0,
                   auth |-> IF configured THEN 1 ELSE 0]
    /\ feed = FeedInit
    /\ feedChan = "none"
    /\ feedOwed = FALSE
    /\ ask = AskInit
    /\ share = ShareInit
    /\ signup = SignupInit
    /\ login = LoginInit
    /\ dlg = NoDoubt
    /\ alist = AlistInit
    /\ alistChan = "none"
    /\ alistOwed = FALSE
    /\ ansForm = AnsFormInit
    /\ lib = LibInit
    /\ libChan = "none"
    /\ libOwed = FALSE
    /\ dash = DashInit

Init ==
    /\ InitAuth /\ InitShell /\ InitStore /\ InitFlights /\ InitPages
    /\ route = "/login"

(***************************************************************************)
(* AuthProvider and navigation.                                            *)
(***************************************************************************)
\* one run of fetchData, its three getDocs not yet settled
NewFetch(u) == [uid |-> u, results |-> [t \in Tabs |-> [status |-> "pending"]]]

\* DashboardPage effect, if (user): fetchData up to the await
DashFetchStart(u, d) ==
    IF ~configured
    THEN /\ dash' = [d EXCEPT !.loading = FALSE]
         /\ UNCHANGED fetches
    ELSE /\ Len(fetches) < MaxFetches
         /\ dash' = [d EXCEPT !.loading = TRUE, !.error = [t \in Tabs |-> Null]]
         /\ fetches' = Append(fetches, NewFetch(u))

\* onAuthStateChanged callback: setUser, setLoading(false); the dashboard's
\* effect depends on user and authLoading and runs again
AuthStateChanged(u) ==
    /\ configured
    /\ u # user \/ authLoading
    /\ user' = u
    /\ authLoading' = FALSE
    /\ IF route = "/dashboard" /\ u # NoUser
       THEN DashFetchStart(u, dash)
       ELSE UNCHANGED dashV
    /\ UNCHANGED <<configured, shellV, storeV, feedV, resolvePending, askV, shareV,
                   signV, loginV, dlgV, ansPending, libV>>
    /\ UNCHANGED channels

\* the calls in flight
Flights ==
    [ask |-> askPending, share |-> sharePending, sign |-> signRuns,
     login |-> loginPending, ans |-> ansPending]

\* DoubtsFeed: useState initial values and the subscribing effect; the
\* effect's cleanup on unmount
MountFeed(r) ==
    IF r = "/doubts"
    THEN /\ feed' = [FeedInit EXCEPT !.loading = configured]
         /\ feedChan' = IF configured THEN "open" ELSE "none"
         /\ feedOwed' = configured
    ELSE /\ feed' = FeedInit
         /\ feedChan' = "none"
         /\ feedOwed' = FALSE

\* NotesPage: useState initial values and the subscribing effect; the
\* effect's cleanup on unmount
MountLib(r) ==
    IF r = "/notes"
    THEN /\ lib' = IF configured THEN LibInit
                   ELSE [LibInit EXCEPT !.loading = FALSE,
                                        !.error = "Database not available."]
         /\ libChan' = IF configured THEN "open" ELSE "none"
         /\ libOwed' = configured
    ELSE /\ lib' = LibInit
         /\ libChan' = "none"
         /\ libOwed' = FALSE

\* DashboardPage: useState initial values and the effect's first run; state
\* updates of an unmounted page's fetchData have no effect
MountDash(r) ==
    IF r = "/dashboard" /\ user # NoUser /\ configured
    THEN /\ dash' = DashInit
         /\ fetches' = <<NewFetch(user)>>
    ELSE /\ dash' = DashInit
         /\ fetches' = <<>>

\* the toast of a page's mount effect, t when it shows none
MountToast(r, t) ==
    IF r = "/doubts" /\ ~configured THEN "Database not configured." ELSE t

\* an effect cleanup that drops the unsubscribe function without calling it
Unsubscribe_Dropped(n, chan) == n

\* the effect's cleanup, () => unsubscribe(): releases the listener the
\* effect registered, if it registered one
Unsubscribe(n, chan) == IF chan # "none" THEN n - 1 ELSE n

\* the effect calls onSnapshot when db is non-null
Subscribe(n, on) == IF on /\ configured THEN n + 1 ELSE n

\* the page at route r mounts and the previous page unmounts; f: the calls
\* in flight
Mount(r, f) ==
    /\ route' = r
    /\ channels' =
          [feed |-> Subscribe(Unsubscribe(channels.feed, feedChan), r = "/doubts"),
           alist |-> Unsubscribe(channels.alist, alistChan),
           lib |-> Subscribe(Unsubscribe(channels.lib, libChan), r = "/notes"),
           auth |-> channels.auth]
    /\ MountFeed(r)
    /\ MountLib(r)
    /\ MountDash(r)
    /\ ask' = AskInit
    /\ share' = ShareInit
    /\ signup' = SignupInit
    /\ login' = LoginInit
    /\ dlg' = NoDoubt
    /\ alist' = AlistInit
    /\ alistChan' = "none"
    /\ alistOwed' = FALSE
    /\ ansForm' = AnsFormInit
    /\ askPending' = Unlive(f.ask)
    /\ sharePending' = Unlive(f.share)
    /\ signRuns' = Unlive(f.sign)
    /\ loginPending' = Unlive(f.login)
    /\ ansPending' = Unlive(f.ans)

\* NavLink, Link: router.push(r)
Navigate(r) ==
    /\ r # route
    /\ Mount(r, Flights)
    /\ toast' = MountToast(r, toast)
    /\ UNCHANGED <<authV, unhandled, storeV, resolvePending, signDone>>

\* AskDoubtPage, ShareResourcePage render and DashboardPage effect:
\* if (!authLoading && !user) router.push('/login'), toast
AuthRedirect ==
    /\ route \in {"/ask-doubt", "/upload-notes", "/dashboard"}
    /\ ~authLoading
    /\ user = NoUser
    /\ Mount("/login", Flights)
    /\ toast' = "Authentication Required"
    /\ UNCHANGED <<authV, unhandled, storeV, resolvePending, signDone>>

(***************************************************************************)
(* AskDoubtPage.                                                           *)
(***************************************************************************)
\* the subject typed into a free text field in place of the Select
AskInputs_FreeText ==
    {[subject |-> "DSA", description |-> "What is a red-black tree?"],
     [subject |-> "Astrology", description |-> "What is a red-black tree?"],
     [subject |-> "", description |-> "What is a red-black tree?"]}

\* the values the form can hold at submit: the subject is "" (nothing
\* selected) or an item of the Select, the description is typed
AskInputs ==
    {[subject |-> "DSA", description |-> "What is a red-black tree?"],
     [subject |-> "", description |-> "What is a red-black tree?"],
     [subject |-> "DSA", description |-> "too short"]}

\* a new doubt stored as already resolved
DoubtFields_Resolved(u, v) ==
    [userId |-> u, userName |-> DisplayName(u), subject |-> v.subject,
     description |-> v.description, isResolved |-> TRUE]

\* the fields onSubmit passes to addDoc
DoubtFields(u, v) ==
    [userId |-> u, userName |-> DisplayName(u), subject |-> v.subject,
     description |-> v.description, isResolved |-> FALSE]

\* form.handleSubmit(onSubmit) followed by onSubmit up to the addDoc call
AskSubmit(v) ==
    /\ route = "/ask-doubt"
    /\ ~authLoading
    /\ user # NoUser
    /\ ~ask.isSubmitting
    /\ LET typed == [ask EXCEPT !.subject = v.subject,
                                !.description = v.description,
                                !.isSubmitted = TRUE]
       IN
       IF ~ResolverPasses(DoubtSchemaOk(v))
       THEN /\ ask' = [typed EXCEPT !.fieldErrors = DoubtFieldErrors(v)]
            /\ UNCHANGED <<toast, askPending>>
       ELSE IF ~configured
       THEN /\ ask' = [typed EXCEPT !.fieldErrors = {}]
            /\ toast' = "Configuration Error"
            /\ UNCHANGED askPending
       ELSE /\ Cardinality(DOMAIN doubts) + Len(askPending) < MaxDoubts
            /\ ask' = [typed EXCEPT !.fieldErrors = {},
                                    !.error = Null,
                                    !.isSubmitting = TRUE]
            /\ askPending' = Append(askPending,
                                    [fields |-> DoubtFields(user, v), live |-> TRUE])
            /\ UNCHANGED toast
    /\ UNCHANGED <<authV, route, unhandled, storeV, feedV, resolvePending, shareV,
                   signV, loginV, dlgV, ansPending, libV, dashV>>
    /\ UNCHANGED channels

\* addDoc resolves: toast, form.reset(), router.push("/doubts"), finally
AskSettleOk(i) ==
    /\ i \in DOMAIN askPending
    /\ doubts' = doubts @@ (NewId(doubts) :> NewDoc(doubts, askPending[i].fields))
    /\ toast' = "Success!"
    /\ IF route = "/doubts"
       THEN /\ feedOwed' = (feedChan = "open")
            /\ askPending' = RemoveAt(askPending, i)
            /\ UNCHANGED <<route, channels, feed, feedChan, ask, shareV, signup, signRuns,
                           loginV, dlgV, ansPending, libV, dashV>>
       ELSE Mount("/doubts", [Flights EXCEPT !.ask = RemoveAt(askPending, i)])
    /\ UNCHANGED <<authV, unhandled, notes, answers, idents, profiles,
                   resolvePending, signDone>>

\* addDoc rejects: the catch also calls form.reset()
AskSettleFail_Reset(i) ==
    /\ i \in DOMAIN askPending
    /\ askPending' = RemoveAt(askPending, i)
    /\ ask' = IF askPending[i].live
              THEN [AskInit EXCEPT !.error = "Post Failed"]
              ELSE ask
    /\ UNCHANGED <<authV, shellV, storeV, feedV, resolvePending, shareV, signV,
                   loginV, dlgV, ansPending, libV, dashV>>
    /\ UNCHANGED channels

\* addDoc rejects: catch, finally
AskSettleFail(i) ==
    /\ i \in DOMAIN askPending
    /\ askPending' = RemoveAt(askPending, i)
    /\ ask' = IF askPending[i].live
              THEN [ask EXCEPT !.error = "Post Failed", !.isSubmitting = FALSE]
              ELSE ask
    /\ UNCHANGED <<authV, shellV, storeV, feedV, resolvePending, shareV, signV,
                   loginV, dlgV, ansPending, libV, dashV>>
    /\ UNCHANGED channels

(***************************************************************************)
(* DoubtsFeed.                                                             *)
(***************************************************************************)
\* onSnapshot success callback
FeedSnapshot ==
    /\ feedChan = "open"
    /\ feedOwed
    /\ feed' = [doubts |-> DoubtsQuery, loading |-> FALSE]
    /\ feedOwed' = FALSE
    /\ UNCHANGED <<authV, shellV, storeV, feedChan, resolvePending, askV, shareV,
                   signV, loginV, dlgV, ansPending, libV, dashV>>
    /\ UNCHANGED channels

\* onSnapshot error callback; the store ends a listener that failed
FeedError ==
    /\ feedChan = "open"
    /\ feedChan' = "failed"
    /\ feedOwed' = FALSE
    /\ toast' = "Could not fetch doubts."
    /\ feed' = [feed EXCEPT !.loading = FALSE]
    /\ UNCHANGED <<authV, route, unhandled, storeV, resolvePending, askV, shareV,
                   signV, loginV, dlgV, ansPending, libV, dashV>>
    /\ UNCHANGED channels

\* the Resolve button shown without the author check
ResolveAffordance_NoOwner(u, d) == ~d.isResolved

\* user?.uid === doubt.userId && !doubt.isResolved
ResolveAffordance(u, d) == u # NoUser /\ u = d.userId /\ ~d.isResolved

\* an update that also rewrites the description of the doubt
ResolveUpdate_Rewrite == [isResolved |-> TRUE, description |-> "resolved"]

\* the partial fields handleMarkAsResolved passes to updateDoc
ResolveUpdate == [isResolved |-> TRUE]

\* onClick={() => handleMarkAsResolved(doubt.id)} up to the updateDoc call
ResolveClick(k) ==
    /\ route = "/doubts"
    /\ ~feed.loading
    /\ k \in DOMAIN feed.doubts
    /\ ResolveAffordance(user, feed.doubts[k])
    /\ IF ~configured
       THEN /\ toast' = "Database not configured."
            /\ UNCHANGED resolvePending
       ELSE /\ Len(resolvePending) < MaxPending
            /\ resolvePending' = Append(resolvePending,
                   [doubtId |-> feed.doubts[k].id, fields |-> ResolveUpdate])
            /\ UNCHANGED toast
    /\ UNCHANGED <<authV, route, unhandled, storeV, feedV, askV, shareV, signV,
                   loginV, dlgV, ansPending, libV, dashV>>
    /\ UNCHANGED channels

\* updateDoc resolves and the handler also patches the list it holds
ResolveSettleOk_Optimistic(i) ==
    /\ i \in DOMAIN resolvePending
    /\ resolvePending[i].doubtId \in DOMAIN doubts
    /\ doubts' = [doubts EXCEPT ![resolvePending[i].doubtId].isResolved =
                                    resolvePending[i].fields.isResolved]
    /\ feed' = [feed EXCEPT !.doubts =
                   [k \in DOMAIN feed.doubts |->
                      IF feed.doubts[k].id = resolvePending[i].doubtId
                      THEN [feed.doubts[k] EXCEPT !.isResolved = TRUE]
                      ELSE feed.doubts[k]]]
    /\ feedOwed' = (feedChan = "open")
    /\ toast' = "Resolved!"
    /\ resolvePending' = RemoveAt(resolvePending, i)
    /\ UNCHANGED <<authV, route, unhandled, notes, answers, idents, profiles,
                   feedChan, askV, shareV, signV, loginV, dlgV, ansPending, libV,
                   dashV>>
    /\ UNCHANGED channels

\* updateDoc resolves
ResolveSettleOk(i) ==
    /\ i \in DOMAIN resolvePending
    /\ resolvePending[i].doubtId \in DOMAIN doubts
    /\ doubts' = [doubts EXCEPT ![resolvePending[i].doubtId].isResolved =
                                    resolvePending[i].fields.isResolved]
    /\ feedOwed' = (feedChan = "open")
    /\ toast' = "Resolved!"
    /\ resolvePending' = RemoveAt(resolvePending, i)
    /\ UNCHANGED <<authV, route, unhandled, notes, answers, idents, profiles, feed,
                   feedChan, askV, shareV, signV, loginV, dlgV, ansPending, libV,
                   dashV>>
    /\ UNCHANGED channels

\* updateDoc rejects: handleMarkAsResolved has no catch
ResolveSettleFail(i) ==
    /\ i \in DOMAIN resolvePending
    /\ unhandled' = TRUE
    /\ resolvePending' = RemoveAt(resolvePending, i)
    /\ UNCHANGED <<authV, route, toast, storeV, feedV, askV, shareV, signV, loginV,
                   dlgV, ansPending, libV, dashV>>
    /\ UNCHANGED channels

(***************************************************************************)
(* ShareResourcePage.                                                      *)
(***************************************************************************)
ShareUrls ==
    {"https://www.youtube.com/watch?v=abc", "youtube.com/watch?v=abc",
     "https://drive.google.com/file/d/1", "drive.google.com/file/d/1",
     "https://example.com/notes.pdf", "not a url"}

ShareInputs ==
    [topic : {"Graph theory notes", "DSA"}, subject : {"DSA", ""},
     description : {""}, resourceType : {"youtube", "drive", ""}, url : ShareUrls]

\* a resource stored without its author
NoteFields_Anonymous(u, v) ==
    [userId |-> NoUser, userName |-> DisplayName(NoUser), topic |-> v.topic,
     subject |-> v.subject, description |-> v.description,
     resourceUrl |-> v.url, resourceType |-> v.resourceType]

\* the fields onSubmit passes to addDoc
NoteFields(u, v) ==
    [userId |-> u, userName |-> DisplayName(u), topic |-> v.topic,
     subject |-> v.subject, description |-> v.description,
     resourceUrl |-> v.url, resourceType |-> v.resourceType]

\* form.handleSubmit(onSubmit) followed by onSubmit up to the addDoc call
ShareSubmit(v) ==
    /\ route = "/upload-notes"
    /\ ~authLoading
    /\ user # NoUser
    /\ ~share.isSubmitting
    /\ LET typed == [share EXCEPT !.topic = v.topic,
                                  !.subject = v.subject,
                                  !.description = v.description,
                                  !.resourceType = v.resourceType,
                                  !.url = v.url,
                                  !.isSubmitted = TRUE]
       IN
       IF ~ResolverPasses(ShareSchemaOk(v))
       THEN /\ share' = [typed EXCEPT !.fieldErrors = ShareFieldErrors(v)]
            /\ UNCHANGED <<toast, sharePending>>
       ELSE IF ~configured
       THEN /\ share' = [typed EXCEPT !.fieldErrors = {}]
            /\ toast' = "Configuration Error"
            /\ UNCHANGED sharePending
       ELSE /\ Cardinality(DOMAIN notes) + Len(sharePending) < MaxNotes
            /\ share' = [typed EXCEPT !.fieldErrors = {},
                                      !.error = Null,
                                      !.isSubmitting = TRUE]
            /\ sharePending' = Append(sharePending,
                                      [fields |-> NoteFields(user, v), live |-> TRUE])
            /\ UNCHANGED toast
    /\ UNCHANGED <<authV, route, unhandled, storeV, feedV, resolvePending, askV,
                   signV, loginV, dlgV, ansPending, libV, dashV>>
    /\ UNCHANGED channels

\* addDoc resolves: toast, form.reset(), router.push("/notes"), finally
ShareSettleOk(i) ==
    /\ i \in DOMAIN sharePending
    /\ notes' = notes @@ (NewId(notes) :> NewDoc(notes, sharePending[i].fields))
    /\ toast' = "Success!"
    /\ IF route = "/notes"
       THEN /\ libOwed' = (libChan = "open")
            /\ sharePending' = RemoveAt(sharePending, i)
            /\ UNCHANGED <<route, channels, lib, libChan, share, feedV, askV, signup, signRuns,
                           loginV, dlgV, ansPending, dashV>>
       ELSE Mount("/notes", [Flights EXCEPT !.share = RemoveAt(sharePending, i)])
    /\ UNCHANGED <<authV, unhandled, doubts, answers, idents, profiles,
                   resolvePending, signDone>>

\* addDoc rejects: the catch issues the same addDoc again
ShareSettleFail_Retry(i) ==
    /\ i \in DOMAIN sharePending
    /\ sharePending' = Append(RemoveAt(sharePending, i), sharePending[i])
    /\ share' = IF sharePending[i].live
                THEN [share EXCEPT !.error = "An unexpected error occurred while saving your resource.",
                                   !.isSubmitting = FALSE]
                ELSE share
    /\ UNCHANGED <<authV, shellV, storeV, feedV, resolvePending, askV, signV,
                   loginV, dlgV, ansPending, libV, dashV>>
    /\ UNCHANGED channels

\* addDoc rejects: catch, finally
ShareSettleFail(i) ==
    /\ i \in DOMAIN sharePending
    /\ sharePending' = RemoveAt(sharePending, i)
    /\ share' = IF sharePending[i].live
                THEN [share EXCEPT !.error = "An unexpected error occurred while saving your resource.",
                                   !.isSubmitting = FALSE]
                ELSE share
    /\ UNCHANGED <<authV, shellV, storeV, feedV, resolvePending, askV, signV,
                   loginV, dlgV, ansPending, libV, dashV>>
    /\ UNCHANGED channels

(***************************************************************************)
(* NotesPage.                                                              *)
(***************************************************************************)
\* query(collection(db, "notes"), orderBy("createdAt", "desc"))
NotesQuery == OrderDesc(DocsOf(notes))

\* a success callback that adds the delivered documents to the list it holds
LibSnapshot_Merge ==
    /\ libChan = "open"
    /\ libOwed
    /\ lib' = [lib EXCEPT !.resources = NotesQuery \o lib.resources,
                          !.loading = FALSE]
    /\ libOwed' = FALSE
    /\ UNCHANGED <<authV, shellV, storeV, feedV, resolvePending, askV, shareV,
                   signV, loginV, dlgV, ansPending, libChan, dashV>>
    /\ UNCHANGED channels

\* onSnapshot success callback: setResources, setLoading(false)
LibSnapshot ==
    /\ libChan = "open"
    /\ libOwed
    /\ lib' = [lib EXCEPT !.resources = NotesQuery, !.loading = FALSE]
    /\ libOwed' = FALSE
    /\ UNCHANGED <<authV, shellV, storeV, feedV, resolvePending, askV, shareV,
                   signV, loginV, dlgV, ansPending, libChan, dashV>>
    /\ UNCHANGED channels

\* onSnapshot error callback; the store ends a listener that failed
LibError ==
    /\ libChan = "open"
    /\ libChan' = "failed"
    /\ libOwed' = FALSE
    /\ lib' = [lib EXCEPT !.error = "Failed to fetch resources from the database.",
                          !.loading = FALSE]
    /\ UNCHANGED <<authV, shellV, storeV, feedV, resolvePending, askV, shareV,
                   signV, loginV, dlgV, ansPending, dashV>>
    /\ UNCHANGED channels

(***************************************************************************)
(* SignupPage.                                                             *)
(***************************************************************************)
SignupInputs ==
    [name : {"Asha", "A"}, email : {"asha@mail.com", "ravi@mail.com", "asha-at-mail"},
     password : {"secret1", "12345"}]

\* the uid the authentication service gives the identity of an email
Uid(email) == IF email = "asha@mail.com" THEN "u1" ELSE "u2"

\* the fields onSubmit passes to setDoc
ProfileFields(v) ==
    [uid |-> Uid(v.email), name |-> v.name, email |-> v.email, upvoteScore |-> 0]

\* the description of the step 1 catch block
AuthErrorCodes == {"auth/email-already-in-use", "auth/weak-password", "auth/network-request-failed"}

CreationFailed(code) ==
    "Account Creation Failed: " \o
        (IF code = "auth/email-already-in-use"
         THEN "This email is already registered. Please try logging in instead."
         ELSE IF code = "auth/weak-password"
         THEN "The password is too weak. Please use at least 6 characters."
         ELSE "An unknown error occurred during account creation.")

\* the step 2 catch block reporting what the step 1 catch block reports
SignupIncomplete_AsCreation == CreationFailed("auth/network-request-failed")

\* the message of the step 2 catch block
SignupIncomplete ==
    "Signup Incomplete. Your account was created, but we could not save your profile."

\* form.handleSubmit(onSubmit) followed by onSubmit up to the
\* createUserWithEmailAndPassword call; the form is rendered when
\* isFirebaseConfigured
SignupSubmit(v) ==
    /\ route = "/signup"
    /\ configured
    /\ ~signup.loading
    /\ LET typed == [signup EXCEPT !.name = v.name, !.email = v.email,
                                   !.password = v.password, !.isSubmitted = TRUE]
       IN
       IF ~ResolverPasses(SignupSchemaOk(v))
       THEN /\ signup' = [typed EXCEPT !.fieldErrors = SignupFieldErrors(v)]
            /\ UNCHANGED signRuns
       ELSE /\ Len(signRuns) < MaxRuns
            /\ signup' = [typed EXCEPT !.fieldErrors = {}, !.error = Null,
                                       !.loading = TRUE]
            /\ signRuns' = Append(signRuns,
                                  [values |-> v, live |-> TRUE, stage |-> "create",
                                   created |-> FALSE, writes |-> 0])
    /\ UNCHANGED <<authV, shellV, storeV, feedV, resolvePending, askV, shareV,
                   signDone, loginV, dlgV, ansPending, libV, dashV>>
    /\ UNCHANGED channels

\* the state of the form after a run's catch or finally block
SignupAfter(run, err) ==
    IF run.live
    THEN [signup EXCEPT !.error = IF err = Null THEN @ ELSE err, !.loading = FALSE]
    ELSE signup

\* createUserWithEmailAndPassword resolves; updateProfile is called
SignCreateOk(i) ==
    /\ i \in DOMAIN signRuns
    /\ signRuns[i].stage = "create"
    /\ signRuns[i].values.email \notin idents
    /\ idents' = idents \cup {signRuns[i].values.email}
    /\ signRuns' = [signRuns EXCEPT ![i].stage = "profile", ![i].created = TRUE]
    /\ UNCHANGED <<authV, shellV, doubts, notes, answers, profiles, feedV,
                   resolvePending, askV, shareV, signup, signDone, loginV, dlgV,
                   ansPending, libV, dashV>>
    /\ UNCHANGED channels

\* createUserWithEmailAndPassword rejects: step 1 catch, return
SignCreateFail(i, code) ==
    /\ i \in DOMAIN signRuns
    /\ signRuns[i].stage = "create"
    /\ code = "auth/email-already-in-use" => signRuns[i].values.email \in idents
    /\ signup' = SignupAfter(signRuns[i], CreationFailed(code))
    /\ signDone' = <<signRuns[i]>>
    /\ signRuns' = RemoveAt(signRuns, i)
    /\ UNCHANGED <<authV, shellV, storeV, feedV, resolvePending, askV, shareV,
                   loginV, dlgV, ansPending, libV, dashV>>
    /\ UNCHANGED channels

\* updateProfile resolves; step 2 up to the setDoc call
SignProfileOk(i) ==
    /\ i \in DOMAIN signRuns
    /\ signRuns[i].stage = "profile"
    /\ signRuns' = [signRuns EXCEPT ![i].stage = "write", ![i].writes = @ + 1]
    /\ UNCHANGED <<authV, shellV, storeV, feedV, resolvePending, askV, shareV,
                   signup, signDone, loginV, dlgV, ansPending, libV, dashV>>
    /\ UNCHANGED channels

\* updateProfile rejects: step 1 catch, return
SignProfileFail(i) ==
    /\ i \in DOMAIN signRuns
    /\ signRuns[i].stage = "profile"
    /\ signup' = SignupAfter(signRuns[i], CreationFailed("auth/network-request-failed"))
    /\ signDone' = <<signRuns[i]>>
    /\ signRuns' = RemoveAt(signRuns, i)
    /\ UNCHANGED <<authV, shellV, storeV, feedV, resolvePending, askV, shareV,
                   loginV, dlgV, ansPending, libV, dashV>>
    /\ UNCHANGED channels

\* setDoc resolves: toast, router.push("/dashboard"), finally
SignWriteOk(i) ==
    /\ i \in DOMAIN signRuns
    /\ signRuns[i].stage = "write"
    /\ LET p == ProfileFields(signRuns[i].values)
       IN  profiles' = [u \in DOMAIN profiles \cup {p.uid} |->
                            IF u = p.uid THEN p ELSE profiles[u]]
    /\ toast' = "Account Created!"
    /\ signDone' = <<[signRuns[i] EXCEPT !.stage = "done"]>>
    /\ IF route = "/dashboard"
       THEN /\ signRuns' = RemoveAt(signRuns, i)
            /\ UNCHANGED <<route, channels, feedV, askV, shareV, signup, loginV, dlgV,
                           ansPending, libV, dashV>>
       ELSE Mount("/dashboard", [Flights EXCEPT !.sign = RemoveAt(signRuns, i)])
    /\ UNCHANGED <<authV, unhandled, doubts, notes, answers, idents, resolvePending>>

\* setDoc rejects: step 2 catch, finally
SignWriteFail(i) ==
    /\ i \in DOMAIN signRuns
    /\ signRuns[i].stage = "write"
    /\ signup' = SignupAfter(signRuns[i], SignupIncomplete)
    /\ signDone' = <<signRuns[i]>>
    /\ signRuns' = RemoveAt(signRuns, i)
    /\ UNCHANGED <<authV, shellV, storeV, feedV, resolvePending, askV, shareV,
                   loginV, dlgV, ansPending, libV, dashV>>
    /\ UNCHANGED channels

(***************************************************************************)
(* LoginPage.                                                              *)
(***************************************************************************)
LoginInputs ==
    [email : {"asha@mail.com", "asha@"}, password : {"secret1", "123"}]

\* form.handleSubmit(onSubmit) followed by onSubmit up to the
\* signInWithEmailAndPassword call; the form is rendered when
\* isFirebaseConfigured
LoginSubmit(v) ==
    /\ route = "/login"
    /\ configured
    /\ ~login.loading
    /\ LET typed == [login EXCEPT !.email = v.email, !.password = v.password,
                                  !.isSubmitted = TRUE]
       IN
       IF ~ResolverPasses(LoginSchemaOk(v))
       THEN /\ login' = [typed EXCEPT !.fieldErrors = LoginFieldErrors(v)]
            /\ UNCHANGED loginPending
       ELSE /\ Len(loginPending) < MaxPending
            /\ login' = [typed EXCEPT !.fieldErrors = {}, !.loading = TRUE]
            /\ loginPending' = Append(loginPending,
                                      [email |-> v.email, password |-> v.password,
                                       live |-> TRUE])
    /\ UNCHANGED <<authV, shellV, storeV, feedV, resolvePending, askV, shareV,
                   signV, dlgV, ansPending, libV, dashV>>
    /\ UNCHANGED channels

\* a login that writes the missing users/{uid} document
LoginSettleOk_Backfill(i) ==
    /\ i \in DOMAIN loginPending
    /\ loginPending[i].email \in idents
    /\ toast' = "Login Successful"
    /\ LET p == ProfileFields([name |-> "", email |-> loginPending[i].email])
       IN  profiles' = [u \in DOMAIN profiles \cup {p.uid} |->
                            IF u \in DOMAIN profiles THEN profiles[u] ELSE p]
    /\ IF route = "/dashboard"
       THEN /\ loginPending' = RemoveAt(loginPending, i)
            /\ UNCHANGED <<route, channels, feedV, askV, shareV, signup, signRuns, login,
                           dlgV, ansPending, libV, dashV>>
       ELSE Mount("/dashboard", [Flights EXCEPT !.login = RemoveAt(loginPending, i)])
    /\ UNCHANGED <<authV, unhandled, doubts, notes, answers, idents,
                   resolvePending, signDone>>

\* signInWithEmailAndPassword resolves: toast, router.push("/dashboard"),
\* finally; the auth listener's callback is AuthStateChanged
LoginSettleOk(i) ==
    /\ i \in DOMAIN loginPending
    /\ loginPending[i].email \in idents
    /\ toast' = "Login Successful"
    /\ IF route = "/dashboard"
       THEN /\ loginPending' = RemoveAt(loginPending, i)
            /\ UNCHANGED <<route, channels, feedV, askV, shareV, signup, signRuns, login,
                           dlgV, ansPending, libV, dashV>>
       ELSE Mount("/dashboard", [Flights EXCEPT !.login = RemoveAt(loginPending, i)])
    /\ UNCHANGED <<authV, unhandled, storeV, resolvePending, signDone>>

\* signInWithEmailAndPassword rejects: catch, finally
LoginSettleFail(i) ==
    /\ i \in DOMAIN loginPending
    /\ toast' = "Login Failed"
    /\ loginPending' = RemoveAt(loginPending, i)
    /\ login' = IF loginPending[i].live THEN [login EXCEPT !.loading = FALSE]
                ELSE login
    /\ UNCHANGED <<authV, route, unhandled, storeV, feedV, resolvePending, askV,
                   shareV, signV, dlgV, ansPending, libV, dashV>>
    /\ UNCHANGED channels

(***************************************************************************)
(* DoubtDetailsDialog and AnswerList.                                      *)
(***************************************************************************)
\* the answers of every doubt, the where clause left out
AnswersQuery_NoFilter(d) == OrderAsc(DocsOf(answers))

\* query(collection(db, "answers"), where("doubtId", "==", doubtId),
\*       orderBy("createdAt", "asc"))
AnswersQuery(d) == OrderAsc({a \in DocsOf(answers) : a.doubtId = d})

\* DialogTrigger of the card at position k: the dialog's content mounts,
\* AnswerList's effect subscribes
OpenDialog(k) ==
    /\ route = "/doubts"
    /\ dlg = NoDoubt
    /\ ~feed.loading
    /\ k \in DOMAIN feed.doubts
    /\ dlg' = feed.doubts[k].id
    /\ alist' = IF configured THEN AlistInit
                ELSE [AlistInit EXCEPT !.loading = FALSE,
                                       !.fetchError = "The application is not connected to the database."]
    /\ alistChan' = IF configured THEN "open" ELSE "none"
    /\ alistOwed' = configured
    /\ channels' = [channels EXCEPT !.alist = Subscribe(@, TRUE)]
    /\ UNCHANGED <<authV, shellV, storeV, feedV, resolvePending, askV, shareV,
                   signV, loginV, ansForm, ansPending, libV, dashV>>

\* the dialog closes: AnswerList unmounts, the effect's cleanup unsubscribes
CloseDialog ==
    /\ dlg # NoDoubt
    /\ dlg' = NoDoubt
    /\ alist' = AlistInit
    /\ alistChan' = "none"
    /\ alistOwed' = FALSE
    /\ channels' = [channels EXCEPT !.alist = Unsubscribe(@, alistChan)]
    /\ UNCHANGED <<authV, shellV, storeV, feedV, resolvePending, askV, shareV,
                   signV, loginV, ansForm, ansPending, libV, dashV>>

\* a snapshot callback that appends to the list it holds
AlistAfterSnapshot_Append(cur, d) ==
    [answers |-> cur.answers \o AnswersQuery(d), loading |-> FALSE, fetchError |-> Null]

\* onSnapshot success callback: setAnswers, setFetchError(null), setLoading(false)
AlistAfterSnapshot(cur, d) ==
    [answers |-> AnswersQuery(d), loading |-> FALSE, fetchError |-> Null]

AlistSnapshot ==
    /\ alistChan = "open"
    /\ alistOwed
    /\ alist' = AlistAfterSnapshot(alist, dlg)
    /\ alistOwed' = FALSE
    /\ UNCHANGED <<authV, shellV, storeV, feedV, resolvePending, askV, shareV,
                   signV, loginV, dlg, alistChan, ansForm, ansPending, libV, dashV>>
    /\ UNCHANGED channels

SnapshotErrorCodes == {"failed-precondition", "permission-denied"}

\* onSnapshot error callback; the store ends a listener that failed
AlistError(code) ==
    /\ alistChan = "open"
    /\ alistChan' = "failed"
    /\ alistOwed' = FALSE
    /\ alist' = [alist EXCEPT
                    !.fetchError = IF code = "failed-precondition"
                                   THEN "This feature requires a database index."
                                   ELSE "An unexpected database error occurred: " \o code,
                    !.loading = FALSE]
    /\ UNCHANGED <<authV, shellV, storeV, feedV, resolvePending, askV, shareV,
                   signV, loginV, dlg, ansForm, ansPending, libV, dashV>>
    /\ UNCHANGED channels

AnswerTexts == {"Use a heap.", "   ", ""}

\* an answer filed under the doubt next to the open one
AnswerFields_OtherDoubt(d, u, text) ==
    [doubtId |-> d + 1, userId |-> u, userName |-> DisplayName(u), text |-> text]

\* the fields handleSubmit passes to addDoc
AnswerFields(d, u, text) ==
    [doubtId |-> d, userId |-> u, userName |-> DisplayName(u), text |-> text]

\* onChange of the textarea followed by handleSubmit up to the addDoc call
AnswerSubmit(text) ==
    /\ route = "/doubts"
    /\ dlg # NoDoubt
    /\ ~ansForm[dlg].isSubmitting
    /\ IF user = NoUser
       THEN /\ toast' = "Login Required"
            /\ Mount("/login", Flights)
       ELSE /\ IF ~configured
               THEN /\ toast' = "Database not configured."
                    /\ ansForm' = [ansForm EXCEPT ![dlg].answer = text]
                    /\ UNCHANGED ansPending
               ELSE IF AnswerBlank(text)
               THEN /\ toast' = "Empty Answer"
                    /\ ansForm' = [ansForm EXCEPT ![dlg].answer = text]
                    /\ UNCHANGED ansPending
               ELSE /\ Cardinality(DOMAIN answers) + Len(ansPending) < MaxAnswers
                    /\ ansForm' = [ansForm EXCEPT ![dlg].answer = text,
                                                  ![dlg].isSubmitting = TRUE]
                    /\ ansPending' = Append(ansPending,
                           [doubtId |-> dlg, fields |-> AnswerFields(dlg, user, text),
                            live |-> TRUE])
                    /\ UNCHANGED toast
            /\ UNCHANGED <<route, channels, feedV, askV, shareV, signup, signRuns, loginV, dlg,
                           alist, alistChan, alistOwed, libV, dashV>>
    /\ UNCHANGED <<authV, unhandled, storeV, resolvePending, signDone>>

\* a write to 'answers' for doubt d is owed to the answer list when it
\* matches the list's filter
OwedAfterAnswer(d) == IF alistChan = "open" /\ dlg = d THEN TRUE ELSE alistOwed

\* addDoc resolves: toast, setAnswer(""), finally
AnsSettleOk(i) ==
    /\ i \in DOMAIN ansPending
    /\ answers' = answers @@ (NewId(answers) :> NewDoc(answers, ansPending[i].fields))
    /\ alistOwed' = OwedAfterAnswer(ansPending[i].doubtId)
    /\ toast' = "Answer submitted!"
    /\ ansForm' = IF ansPending[i].live
                  THEN [ansForm EXCEPT ![ansPending[i].doubtId] =
                            [answer |-> "", isSubmitting |-> FALSE]]
                  ELSE ansForm
    /\ ansPending' = RemoveAt(ansPending, i)
    /\ UNCHANGED <<authV, route, unhandled, doubts, notes, idents, profiles, feedV,
                   resolvePending, askV, shareV, signV, loginV, dlg, alist,
                   alistChan, libV, dashV>>
    /\ UNCHANGED channels

\* addDoc rejects: a catch with no finally block
AnsSettleFail_NoFinally(i) ==
    /\ i \in DOMAIN ansPending
    /\ toast' = "Could not submit your answer."
    /\ ansPending' = RemoveAt(ansPending, i)
    /\ UNCHANGED <<authV, route, unhandled, storeV, feedV, resolvePending, askV,
                   shareV, signV, loginV, dlg, alist, alistChan, alistOwed, ansForm,
                   libV, dashV>>
    /\ UNCHANGED channels

\* addDoc rejects: catch, finally
AnsSettleFail(i) ==
    /\ i \in DOMAIN ansPending
    /\ toast' = "Could not submit your answer."
    /\ ansForm' = IF ansPending[i].live
                  THEN [ansForm EXCEPT ![ansPending[i].doubtId].isSubmitting = FALSE]
                  ELSE ansForm
    /\ ansPending' = RemoveAt(ansPending, i)
    /\ UNCHANGED <<authV, route, unhandled, storeV, feedV, resolvePending, askV,
                   shareV, signV, loginV, dlg, alist, alistChan, alistOwed, libV,
                   dashV>>
    /\ UNCHANGED channels

(***************************************************************************)
(* Other sessions of the application writing to the same store.            *)
(***************************************************************************)
\* AskDoubtPage.onSubmit of another session: its addDoc resolves
RemoteAddDoubt(u) ==
    /\ configured
    /\ Cardinality(DOMAIN doubts) + Len(askPending) < MaxDoubts
    /\ doubts' = doubts @@ (NewId(doubts) :>
           NewDoc(doubts, DoubtFields(u, [subject |-> "DSA",
                                          description |-> "What is a red-black tree?"])))
    /\ feedOwed' = (feedChan = "open")
    /\ UNCHANGED <<authV, shellV, notes, answers, idents, profiles, feed, feedChan,
                   resolvePending, askV, shareV, signV, loginV, dlgV, ansPending,
                   libV, dashV>>
    /\ UNCHANGED channels

\* ShareResourcePage.onSubmit of another session: its addDoc resolves
RemoteAddNote(u) ==
    /\ configured
    /\ Cardinality(DOMAIN notes) + Len(sharePending) < MaxNotes
    /\ notes' = notes @@ (NewId(notes) :>
           NewDoc(notes, NoteFields(u, [topic |-> "Graph theory notes", subject |-> "DSA",
                                        description |-> "", resourceType |-> "youtube",
                                        url |-> "https://www.youtube.com/watch?v=abc"])))
    /\ libOwed' = (libChan = "open")
    /\ UNCHANGED <<authV, shellV, doubts, answers, idents, profiles, feedV,
                   resolvePending, askV, shareV, signV, loginV, dlgV, ansPending,
                   lib, libChan, dashV>>
    /\ UNCHANGED channels

\* DoubtDetailsDialog.handleSubmit of another session: its addDoc resolves
RemoteAddAnswer(u, d) ==
    /\ configured
    /\ d \in DOMAIN doubts
    /\ Cardinality(DOMAIN answers) + Len(ansPending) < MaxAnswers
    /\ answers' = answers @@ (NewId(answers) :>
           NewDoc(answers, AnswerFields(d, u, "Use a heap.")))
    /\ alistOwed' = OwedAfterAnswer(d)
    /\ UNCHANGED <<authV, shellV, doubts, notes, idents, profiles, feedV,
                   resolvePending, askV, shareV, signV, loginV, dlg, alist,
                   alistChan, ansForm, ansPending, libV, dashV>>
    /\ UNCHANGED channels

(***************************************************************************)
(* DashboardPage.                                                          *)
(***************************************************************************)
\* the collection a tab's query reads
TabDocs(t) ==
    IF t = "doubts" THEN DocsOf(doubts)
    ELSE IF t = "notes" THEN DocsOf(notes)
    ELSE DocsOf(answers)

\* query(collection(db, t), where('userId', '==', user.uid),
\*       orderBy('createdAt', 'desc'))
DashQuery(t, u) == OrderDesc({d \in TabDocs(t) : d.userId = u})

\* reason.message of a getDocs that rejects
Reasons == {"The query requires an index.", "Missing or insufficient permissions."}

\* one getDocs of a run settles; Promise.allSettled records its outcome
QuerySettle(i, t, r) ==
    /\ i \in DOMAIN fetches
    /\ fetches[i].results[t].status = "pending"
    /\ fetches' = [fetches EXCEPT ![i].results[t] =
           IF r = Null
           THEN [status |-> "fulfilled", value |-> DashQuery(t, fetches[i].uid)]
           ELSE [status |-> "rejected", reason |-> r]]
    /\ UNCHANGED <<authV, shellV, storeV, feedV, resolvePending, askV, shareV,
                   signV, loginV, dlgV, ansPending, libV, dash>>
    /\ UNCHANGED channels

\* the list and the error of tab t after fetchData handled the results rs
TabList(cur, t, rs) == IF rs[t].status = "fulfilled" THEN rs[t].value ELSE cur

\* a rejection of any query reported on every tab
TabError_Shared(cur, t, rs) ==
    IF \E s \in Tabs : rs[s].status = "rejected"
    THEN rs[CHOOSE s \in Tabs : rs[s].status = "rejected"].reason
    ELSE cur

TabError(cur, t, rs) == IF rs[t].status = "rejected" THEN rs[t].reason ELSE cur

\* Promise.all: the wait ends with the first rejection
AllSettled_FirstRejection(rs) ==
    \/ \E t \in Tabs : rs[t].status = "rejected"
    \/ \A t \in Tabs : rs[t].status # "pending"

\* Promise.allSettled: the wait ends when every promise has settled
AllSettled(rs) == \A t \in Tabs : rs[t].status # "pending"

\* the handling of a rejected result throws before setLoading(false)
DashProcess_ThrowOnReject(i) ==
    /\ i \in DOMAIN fetches
    /\ AllSettled(fetches[i].results)
    /\ dash' = [list |-> [t \in Tabs |-> TabList(dash.list[t], t, fetches[i].results)],
                error |-> [t \in Tabs |-> TabError(dash.error[t], t, fetches[i].results)],
                loading |-> IF \E t \in Tabs : fetches[i].results[t].status = "rejected"
                            THEN dash.loading ELSE FALSE]
    /\ fetches' = RemoveAt(fetches, i)
    /\ UNCHANGED <<authV, shellV, storeV, feedV, resolvePending, askV, shareV,
                   signV, loginV, dlgV, ansPending, libV>>
    /\ UNCHANGED channels

\* Promise.allSettled resolves: the three results are handled, setLoading(false)
DashProcess(i) ==
    /\ i \in DOMAIN fetches
    /\ AllSettled(fetches[i].results)
    /\ dash' = [list |-> [t \in Tabs |-> TabList(dash.list[t], t, fetches[i].results)],
                error |-> [t \in Tabs |-> TabError(dash.error[t], t, fetches[i].results)],
                loading |-> FALSE]
    /\ fetches' = RemoveAt(fetches, i)
    /\ UNCHANGED <<authV, shellV, storeV, feedV, resolvePending, askV, shareV,
                   signV, loginV, dlgV, ansPending, libV>>
    /\ UNCHANGED channels

\* TabContentTemplate: what a tab shows
TabView(t) ==
    IF dash.error[t] # Null THEN "error"
    ELSE IF Len(dash.list[t]) > 0 THEN "data"
    ELSE "empty"

\* IndexErrorMessage: the alert a tab shows for its error, Null for none
IndexErrorMessage(error) ==
    IF error = Null THEN Null
    ELSE "Action Required: Database Query Failed. This usually happens because a required database index is missing."

(***************************************************************************)
(* What the subscribed views render.                                       *)
(***************************************************************************)
\* DoubtsFeed: skeleton, empty card or grid
FeedView ==
    IF feed.loading THEN "loading"
    ELSE IF Len(feed.doubts) = 0 THEN "empty"
    ELSE "data"

\* a render that shows the alert when the list is empty
AlistView_EmptyAsError ==
    IF alist.loading THEN "loading"
    ELSE IF alist.fetchError # Null \/ Len(alist.answers) = 0 THEN "error"
    ELSE "data"

\* AnswerList: skeleton, alert, "No answers yet" or the cards
AlistView ==
    IF alist.loading THEN "loading"
    ELSE IF alist.fetchError # Null THEN "error"
    ELSE IF Len(alist.answers) = 0 THEN "empty"
    ELSE "data"

\* NotesPage: the blocks its render shows
LibView ==
    (IF lib.loading THEN {"loading"} ELSE {})
    \cup (IF lib.error # Null THEN {"error"} ELSE {})
    \cup (IF ~lib.loading /\ lib.error = Null /\ Len(lib.resources) = 0
          THEN {"empty"} ELSE {})
    \cup (IF ~lib.loading /\ lib.error = Null /\ Len(lib.resources) > 0
          THEN {"data"} ELSE {})

(***************************************************************************)
(* Specification of the doubts pages: /doubts, /ask-doubt.                 *)
(***************************************************************************)
AnyUser == Users \cup {NoUser}

DoubtsRoutes == {"/doubts", "/ask-doubt", "/login"}

Next ==
    \/ \E u \in AnyUser : AuthStateChanged(u)
    \/ \E r \in DoubtsRoutes : Navigate(r)
    \/ AuthRedirect
    \/ \E v \in AskInputs : AskSubmit(v)
    \/ \E i \in 1..MaxPending : AskSettleOk(i)
    \/ \E i \in 1..MaxPending : AskSettleFail(i)
    \/ FeedSnapshot
    \/ FeedError
    \/ \E k \in 1..MaxDoubts : ResolveClick(k)
    \/ \E i \in 1..MaxPending : ResolveSettleOk(i)
    \/ \E i \in 1..MaxPending : ResolveSettleFail(i)

Spec == Init /\ [][Next]_vars

(***************************************************************************)
(* Specification of the forms: every submit handler and its calls.         *)
(***************************************************************************)
FormRoutes == {"/ask-doubt", "/upload-notes", "/signup", "/login"}

\* one of the form pages is mounted; an identity may be registered already
FormSpecInit ==
    /\ configured \in BOOLEAN
    /\ user \in (IF configured THEN AnyUser ELSE {NoUser})
    /\ authLoading = FALSE
    /\ InitShell /\ InitFlights /\ InitPages
    /\ route \in FormRoutes
    /\ doubts = <<>>
    /\ notes = <<>>
    /\ answers = <<>>
    /\ idents \in {{}, {"asha@mail.com"}}
    /\ profiles = <<>>

FormNext ==
    \/ \E u \in AnyUser : AuthStateChanged(u)
    \/ AuthRedirect
    \/ \E v \in AskInputs : AskSubmit(v)
    \/ \E i \in 1..MaxPending : AskSettleOk(i)
    \/ \E i \in 1..MaxPending : AskSettleFail(i)
    \/ \E v \in ShareInputs : ShareSubmit(v)
    \/ \E i \in 1..MaxPending : ShareSettleOk(i)
    \/ \E i \in 1..MaxPending : ShareSettleFail(i)
    \/ \E v \in SignupInputs : SignupSubmit(v)
    \/ \E i \in 1..MaxRuns : SignCreateOk(i)
    \/ \E i \in 1..MaxRuns, c \in AuthErrorCodes : SignCreateFail(i, c)
    \/ \E i \in 1..MaxRuns : SignProfileOk(i)
    \/ \E i \in 1..MaxRuns : SignProfileFail(i)
    \/ \E i \in 1..MaxRuns : SignWriteOk(i)
    \/ \E i \in 1..MaxRuns : SignWriteFail(i)
    \/ \E v \in LoginInputs : LoginSubmit(v)
    \/ \E i \in 1..MaxPending : LoginSettleOk(i)
    \/ \E i \in 1..MaxPending : LoginSettleFail(i)
    \/ FeedSnapshot
    \/ \E k \in 1..MaxDoubts : OpenDialog(k)
    \/ \E text \in AnswerTexts : AnswerSubmit(text)
    \/ \E i \in 1..MaxPending : AnsSettleOk(i)
    \/ \E i \in 1..MaxPending : AnsSettleFail(i)
    \/ \E k \in 1..MaxDoubts : ResolveClick(k)
    \/ \E i \in 1..MaxPending : ResolveSettleOk(i)
    \/ \E i \in 1..MaxPending : ResolveSettleFail(i)

FormSpec == FormSpecInit /\ [][FormNext]_vars

\* a call of each kind that is in flight settles: its promise resolves or
\* rejects
AskSettles == \E i \in 1..MaxPending : AskSettleOk(i) \/ AskSettleFail(i)

ShareSettles == \E i \in 1..MaxPending : ShareSettleOk(i) \/ ShareSettleFail(i)

AnsSettles == \E i \in 1..MaxPending : AnsSettleOk(i) \/ AnsSettleFail(i)

LoginSettles == \E i \in 1..MaxPending : LoginSettleOk(i) \/ LoginSettleFail(i)

SignSettles ==
    \E i \in 1..MaxRuns :
        \/ SignCreateOk(i)
        \/ \E c \in AuthErrorCodes : SignCreateFail(i, c)
        \/ SignProfileOk(i) \/ SignProfileFail(i)
        \/ SignWriteOk(i) \/ SignWriteFail(i)

FairForm ==
    /\ FormSpec
    /\ WF_vars(AskSettles)
    /\ WF_vars(ShareSettles)
    /\ WF_vars(AnsSettles)
    /\ WF_vars(LoginSettles)
    /\ WF_vars(SignSettles)

(***************************************************************************)
(* Specification of the signup page.                                       *)
(***************************************************************************)
SignupRoutes == {"/signup", "/login"}

SignupNext ==
    \/ \E r \in SignupRoutes : Navigate(r)
    \/ \E v \in SignupInputs : SignupSubmit(v)
    \/ \E i \in 1..MaxRuns : SignCreateOk(i)
    \/ \E i \in 1..MaxRuns, c \in AuthErrorCodes : SignCreateFail(i, c)
    \/ \E i \in 1..MaxRuns : SignProfileOk(i)
    \/ \E i \in 1..MaxRuns : SignProfileFail(i)
    \/ \E i \in 1..MaxRuns : SignWriteOk(i)
    \/ \E i \in 1..MaxRuns : SignWriteFail(i)

SignupSpec == Init /\ [][SignupNext]_vars

(***************************************************************************)
(* Specification of the answers of a doubt.                                *)
(***************************************************************************)
AnswerRoutes == {"/doubts", "/login"}

AnswerNext ==
    \/ \E u \in AnyUser : AuthStateChanged(u)
    \/ \E r \in AnswerRoutes : Navigate(r)
    \/ RemoteAddDoubt("u1")
    \/ FeedSnapshot
    \/ \E k \in 1..MaxDoubts : OpenDialog(k)
    \/ CloseDialog
    \/ AlistSnapshot
    \/ \E c \in SnapshotErrorCodes : AlistError(c)
    \/ \E text \in AnswerTexts : AnswerSubmit(text)
    \/ \E i \in 1..MaxPending : AnsSettleOk(i)
    \/ \E i \in 1..MaxPending : AnsSettleFail(i)
    \/ \E d \in DoubtIds : RemoteAddAnswer("u2", d)

AnswerSpec == Init /\ [][AnswerNext]_vars

(***************************************************************************)
(* Specification of the subscribed views: feed, answer list, library.      *)
(***************************************************************************)
LiveRoutes == {"/doubts", "/notes"}

LiveNext ==
    \/ \E r \in LiveRoutes : Navigate(r)
    \/ RemoteAddDoubt("u1")
    \/ RemoteAddNote("u1")
    \/ \E d \in DoubtIds : RemoteAddAnswer("u2", d)
    \/ FeedSnapshot
    \/ FeedError
    \/ \E k \in 1..MaxDoubts : OpenDialog(k)
    \/ CloseDialog
    \/ AlistSnapshot
    \/ \E c \in SnapshotErrorCodes : AlistError(c)
    \/ LibSnapshot
    \/ LibError

LiveSpec == Init /\ [][LiveNext]_vars

\* the store delivers a snapshot it owes to a listener that is subscribed
FairLive ==
    /\ LiveSpec
    /\ WF_vars(FeedSnapshot)
    /\ WF_vars(AlistSnapshot)
    /\ WF_vars(LibSnapshot)

(***************************************************************************)
(* Specification of the dashboard.                                         *)
(***************************************************************************)
DashRoutes == {"/dashboard", "/login"}

\* a store other sessions have written to: each user asked a doubt and
\* answered the other's, u1 shared a resource
SeedDoubt == [subject |-> "DSA", description |-> "What is a red-black tree?"]

SeedNote ==
    [topic |-> "Graph theory notes", subject |-> "DSA", description |-> "",
     resourceType |-> "youtube", url |-> "https://www.youtube.com/watch?v=abc"]

SeedDoubts ==
    LET first == 1 :> NewDoc(<<>>, DoubtFields("u1", SeedDoubt))
    IN  first @@ (2 :> NewDoc(first, DoubtFields("u2", SeedDoubt)))

SeedNotes == 1 :> NewDoc(<<>>, NoteFields("u1", SeedNote))

SeedAnswers ==
    LET first == 1 :> NewDoc(<<>>, AnswerFields(2, "u1", "Use a heap."))
    IN  first @@ (2 :> NewDoc(first, AnswerFields(1, "u2", "Use a heap.")))

DashSpecInit ==
    /\ configured = TRUE
    /\ user = NoUser
    /\ authLoading = TRUE
    /\ InitShell /\ InitFlights /\ InitPages
    /\ route = "/login"
    /\ doubts = SeedDoubts
    /\ notes = SeedNotes
    /\ answers = SeedAnswers
    /\ idents = {}
    /\ profiles = <<>>

DashNext ==
    \/ \E u \in AnyUser : AuthStateChanged(u)
    \/ \E r \in DashRoutes : Navigate(r)
    \/ AuthRedirect
    \/ \E i \in 1..MaxFetches, t \in Tabs, r \in Reasons \cup {Null} : QuerySettle(i, t, r)
    \/ \E i \in 1..MaxFetches : DashProcess(i)

DashSpec == DashSpecInit /\ [][DashNext]_vars

(***************************************************************************)
(* Specification of the dashboard's effect running again: the dashboard    *)
(* is mounted while the auth listener reports one user after another.      *)
(***************************************************************************)
RefetchSpecInit ==
    /\ configured = TRUE
    /\ user = NoUser
    /\ authLoading = TRUE
    /\ InitShell /\ InitFlights /\ InitPages
    /\ route = "/dashboard"
    /\ doubts = SeedDoubts
    /\ notes = SeedNotes
    /\ answers = SeedAnswers
    /\ idents = {}
    /\ profiles = <<>>

\* a query is fulfilled or rejected; one reason stands for every rejection
RefetchOutcomes == {Null, "Missing or insufficient permissions."}

RefetchNext ==
    \/ \E u \in Users : AuthStateChanged(u)
    \/ \E i \in 1..MaxFetches, t \in Tabs, r \in RefetchOutcomes : QuerySettle(i, t, r)
    \/ \E i \in 1..MaxFetches : DashProcess(i)

RefetchSpec == RefetchSpecInit /\ [][RefetchNext]_vars

\* every getDocs settles, and the continuation after allSettled runs
FairRefetch ==
    /\ RefetchSpec
    /\ WF_vars(\E i \in 1..MaxFetches, t \in Tabs, r \in RefetchOutcomes : QuerySettle(i, t, r))
    /\ WF_vars(\E i \in 1..MaxFetches : DashProcess(i))


(***************************************************************************)
(* Specification of the writes made from the doubts page: resolving a      *)
(* doubt and answering it, with the two subscriptions that show them.      *)
(***************************************************************************)
WriteNext ==
    \/ AuthStateChanged("u1")
    \/ Navigate("/doubts")
    \/ RemoteAddDoubt("u1")
    \/ FeedSnapshot
    \/ \E k \in 1..MaxDoubts : ResolveClick(k)
    \/ \E i \in 1..MaxPending : ResolveSettleOk(i)
    \/ \E i \in 1..MaxPending : ResolveSettleFail(i)
    \/ \E k \in 1..MaxDoubts : OpenDialog(k)
    \/ CloseDialog
    \/ AlistSnapshot
    \/ \E text \in AnswerTexts : AnswerSubmit(text)
    \/ \E i \in 1..MaxPending : AnsSettleOk(i)
    \/ \E i \in 1..MaxPending : AnsSettleFail(i)
    \/ \E d \in DoubtIds : RemoteAddAnswer("u2", d)

WriteSpec == Init /\ [][WriteNext]_vars

(***************************************************************************)
(* Properties of the doubts pages.                                         *)
(***************************************************************************)
\* C1: a new doubt enters the store with isResolved = FALSE, no doubt leaves
\* the store, and once a doubt's isResolved is TRUE no step sets it back.
ResolveMonotonic ==
    [][/\ DOMAIN doubts \subseteq DOMAIN doubts'
       /\ \A d \in DOMAIN doubts' :
            IF d \in DOMAIN doubts
            THEN doubts[d].isResolved => doubts'[d].isResolved
            ELSE ~doubts'[d].isResolved]_vars

\* a doubt was resolved, and a later doubt was posted after that
ResolveMonotonic_Witness ==
    /\ toast = "Success!"
    /\ \E d \in DOMAIN doubts : doubts[d].isResolved
    /\ \E d \in DOMAIN doubts : ~doubts[d].isResolved

NewestDoubt == CHOOSE d \in DocsOf(doubts) : \A e \in DocsOf(doubts) : Before(e, d)

\* C6 (Scenario A): a submitted doubt is sent with the submitting user's uid,
\* the submitted subject and isResolved = FALSE; it is stored with exactly
\* those fields and the latest creation time; and the snapshot the feed holds
\* after the success has that doubt, unresolved, as its first element.
ScenarioA ==
    /\ [](route = "/doubts" /\ toast = "Success!" /\ feedChan = "open" /\ ~feedOwed
            => /\ feed.doubts # <<>>
               /\ Head(feed.doubts) = NewestDoubt
               /\ ~Head(feed.doubts).isResolved)
    /\ [][/\ Len(askPending') > Len(askPending) =>
                LET c == askPending'[Len(askPending')].fields
                IN  /\ c.userId = user /\ user \in Users
                    /\ c.subject = ask'.subject
                    /\ DoubtSchemaOk(ask')
                    /\ c.isResolved = FALSE
          /\ \A d \in DOMAIN doubts' \ DOMAIN doubts :
                /\ \E i \in DOMAIN askPending :
                     /\ askPending'= RemoveAt(askPending, i)
                          \/ askPending' = Unlive(RemoveAt(askPending, i))
                     /\ \A f \in DOMAIN askPending[i].fields :
                          doubts'[d][f] = askPending[i].fields[f]
                /\ \A e \in DOMAIN doubts : doubts[e].createdAt < doubts'[d].createdAt]_vars

\* the feed shows two doubts, the one just posted by u1 first
ScenarioA_Witness ==
    /\ route = "/doubts" /\ toast = "Success!" /\ feedChan = "open" /\ ~feedOwed
    /\ Len(feed.doubts) = 2
    /\ Head(feed.doubts).userId = "u1"
    /\ Head(feed.doubts).subject = "DSA"
    /\ feed.doubts[2].userId = "u2"

\* C8: every resolve update is issued for a doubt of the store while the
\* signed-in user's uid equals that doubt's author id.
ResolveOwnership ==
    [][Len(resolvePending') > Len(resolvePending) =>
          LET c == resolvePending'[Len(resolvePending')]
          IN  /\ c.doubtId \in DOMAIN doubts
              /\ user \in Users
              /\ user = doubts[c.doubtId].userId]_vars

\* u2's resolve of u2's doubt is in flight while u1's doubt is also listed
ResolveOwnership_Witness ==
    /\ user = "u2"
    /\ Len(resolvePending) = 1
    /\ doubts[resolvePending[1].doubtId].userId = "u2"
    /\ \E k \in DOMAIN feed.doubts : feed.doubts[k].userId = "u1" /\ ~feed.doubts[k].isResolved

(***************************************************************************)
(* Properties of the listeners the views register.                         *)
(***************************************************************************)
\* the number of listeners a mounted, configured view holds
Held(mounted) == IF mounted /\ configured THEN 1 ELSE 0

\* C12: the doubts feed, the answer list, the resource library and the
\* auth provider each hold exactly one listener while mounted on a
\* configured client and none otherwise, so a view that was torn down holds
\* none; and the state of a view that holds no listener, or that has been
\* torn down, is not changed by a snapshot or an error
SubscriptionRelease ==
    /\ [](/\ channels.feed = Held(route = "/doubts")
          /\ channels.alist = Held(route = "/doubts" /\ dlg # NoDoubt)
          /\ channels.lib = Held(route = "/notes")
          /\ channels.auth = Held(TRUE)
          /\ feedChan # "none" <=> channels.feed = 1
          /\ alistChan # "none" <=> channels.alist = 1
          /\ libChan # "none" <=> channels.lib = 1)
    /\ [][/\ channels.feed = 0 /\ route' = route => feed' = feed
          /\ channels.alist = 0 /\ route' = route /\ dlg' = dlg => alist' = alist
          /\ channels.lib = 0 /\ route' = route => lib' = lib
          /\ route' # "/doubts" => feed' = FeedInit /\ alist' = AlistInit
          /\ route' # "/notes" => lib' = LibInit
          /\ dlg' = NoDoubt => alist' = AlistInit]_vars

\* C12 witness: the feed's listener reported an error on /doubts, the page
\* was left for the library, and only the library and the auth provider
\* hold a listener
SubscriptionRelease_Witness ==
    /\ route = "/notes"
    /\ toast = "Could not fetch doubts."
    /\ doubts # <<>>
    /\ channels = [feed |-> 0, alist |-> 0, lib |-> 1, auth |-> 1]
    /\ ~lib.loading

(***************************************************************************)
(* Properties of the documents the client writes.                          *)
(***************************************************************************)
\* document i of collection coll is kept as it is by the step
Kept(coll, collNext, i) == i \in DOMAIN collNext /\ collNext[i] = coll[i]

\* C21: no step removes or changes a stored answer or resource; a stored
\* doubt is never removed and changes only by isResolved becoming TRUE;
\* the only update call in flight carries exactly the field isResolved =
\* TRUE
AppendOnly ==
    [][/\ \A a \in DOMAIN answers : Kept(answers, answers', a)
       /\ \A n \in DOMAIN notes : Kept(notes, notes', n)
       /\ \A d \in DOMAIN doubts :
            \/ Kept(doubts, doubts', d)
            \/ /\ d \in DOMAIN doubts'
               /\ doubts'[d] = [doubts[d] EXCEPT !.isResolved = TRUE]
       /\ \A i \in DOMAIN resolvePending' :
            resolvePending'[i].fields = [isResolved |-> TRUE]]_vars

\* C21 witness: a doubt was resolved by its update call while an answer to
\* it is stored
AppendOnly_Witness ==
    \E d \in DOMAIN doubts :
        /\ doubts[d].isResolved
        /\ \E a \in DOMAIN answers : answers[a].doubtId = d
        /\ resolvePending = <<>>

\* s is an item of the subject list
IsSubject(s) == \E k \in DOMAIN subjects : subjects[k] = s

Delivers(owed, owedNext, chanNext) == owed /\ ~owedNext /\ chanNext = "open"

\* C23: a view that is still loading holds the empty list; a step that
\* delivers a snapshot to a view sets its list to the whole result of its
\* query, in the query's order, whatever list it held; any other step
\* that keeps the view mounted leaves its list as it was
SnapshotAuthoritative ==
    /\ [](/\ feed.loading => feed.doubts = <<>>
          /\ alist.loading => alist.answers = <<>>
          /\ lib.loading => lib.resources = <<>>)
    /\ [][/\ route' = route =>
               IF Delivers(feedOwed, feedOwed', feedChan')
               THEN feed'.doubts = DoubtsQuery
               ELSE feed'.doubts = feed.doubts
          /\ route' = route /\ dlg' = dlg =>
               IF Delivers(alistOwed, alistOwed', alistChan')
               THEN alist'.answers = AnswersQuery(dlg)
               ELSE alist'.answers = alist.answers
          /\ route' = route =>
               IF Delivers(libOwed, libOwed', libChan')
               THEN lib'.resources = NotesQuery
               ELSE lib'.resources = lib.resources]_vars

\* C23 witness: the library holds both stored resources, newest first, as
\* its last snapshot delivered them
SnapshotAuthoritative_Witness ==
    /\ route = "/notes"
    /\ libChan = "open"
    /\ ~libOwed
    /\ Len(lib.resources) = 2
    /\ lib.resources = NotesQuery
    /\ lib.resources[1].createdAt > lib.resources[2].createdAt

\* C24: a step that delivers a snapshot with no matching record leaves the
\* view showing its empty state: not loading, no error, an empty list
EmptyIsNotAnError ==
    [][/\ route' = route /\ Delivers(feedOwed, feedOwed', feedChan')
             /\ DoubtsQuery = <<>> =>
            /\ FeedView' = "empty"
            /\ ~feed'.loading
       /\ route' = route /\ dlg' = dlg /\ Delivers(alistOwed, alistOwed', alistChan')
             /\ AnswersQuery(dlg) = <<>> =>
            /\ AlistView' = "empty"
            /\ ~alist'.loading
            /\ alist'.fetchError = Null
            /\ alist'.answers = <<>>
       /\ route' = route /\ Delivers(libOwed, libOwed', libChan')
             /\ NotesQuery = <<>> =>
            /\ LibView' = {"empty"}
            /\ ~lib'.loading
            /\ lib'.error = Null
            /\ lib'.resources = <<>>]_vars

\* C24 witness: the dialog of a doubt nobody has answered received its
\* snapshot and shows "No answers yet"
EmptyIsNotAnError_Witness ==
    /\ route = "/doubts"
    /\ dlg # NoDoubt
    /\ alistChan = "open"
    /\ ~alistOwed
    /\ AlistView = "empty"
    /\ \A a \in DOMAIN answers : answers[a].doubtId # dlg

(***************************************************************************)
(* Properties of the dashboard.                                            *)
(***************************************************************************)
\* the step in which fetchData handles the results of run i
Handled(i) ==
    /\ i \in DOMAIN fetches
    /\ route' = route
    /\ fetches' = RemoveAt(fetches, i)
    /\ \A t \in Tabs : fetches[i].results[t].status # "pending"

Issued(p, q) == Len(q) > Len(p)

\* C3: a submit whose input fails the form's schema issues no call: every
\* step that issues a create or auth call leaves the form holding the input
\* that was submitted, and that input has a subject and a description of 10
\* characters or more (doubt); a topic of 5 or more, a subject, a type and a
\* valid URL (resource); a well-formed email and a password of 6 or more
\* (signup, login); text that is not blank (answer)
ValidationGating ==
    [][/\ Issued(askPending, askPending') =>
            /\ ask'.subject # "" /\ Len(ask'.description) >= 10
            /\ DoubtSchemaOk(ask')
       /\ Issued(sharePending, sharePending') =>
            /\ Len(share'.topic) >= 5 /\ share'.subject # ""
            /\ share'.resourceType \in {"youtube", "drive"}
            /\ IsUrl(share'.url) /\ UrlRefine(share'.resourceType, share'.url)
            /\ ShareSchemaOk(share')
       /\ Issued(signRuns, signRuns') =>
            /\ IsEmail(signup'.email) /\ Len(signup'.password) >= 6
            /\ SignupSchemaOk(signup')
       /\ Issued(loginPending, loginPending') =>
            /\ IsEmail(login'.email) /\ Len(login'.password) >= 6
            /\ LoginSchemaOk(login')
       /\ Issued(ansPending, ansPending') =>
            /\ dlg # NoDoubt
            /\ Trim(ansForm'[dlg].answer) # ""
       /\ \/ ask'.isSubmitted /\ ask' # ask /\ ~DoubtSchemaOk(ask')
          \/ share'.isSubmitted /\ share' # share /\ ~ShareSchemaOk(share')
          \/ signup'.isSubmitted /\ signup' # signup /\ ~SignupSchemaOk(signup')
          \/ login'.isSubmitted /\ login' # login /\ ~LoginSchemaOk(login')
          => UNCHANGED <<askPending, sharePending, signRuns, loginPending,
                         ansPending, resolvePending, storeV>>]_vars

\* C3 witness: a resource with an invalid URL, a signup with a short password
\* or a blank answer was submitted and nothing is in flight or stored
ValidationGating_Witness ==
    /\ sharePending = <<>> /\ signRuns = <<>> /\ ansPending = <<>>
    /\ notes = <<>> /\ idents = {} /\ answers = <<>>
    /\ \/ share.isSubmitted /\ "url" \in share.fieldErrors
       \/ signup.isSubmitted /\ "password" \in signup.fieldErrors
       \/ dlg # NoDoubt /\ toast = "Empty Answer" /\ ansForm[dlg].answer = "   "

\* the share form rejected the URL of the input it holds
UrlRejected == "url" \in share.fieldErrors

\* the URL has the shape of the selected resource type
ShapeMatchesType ==
    \/ share.resourceType = "youtube" /\ MatchesYouTube(share.url)
    \/ share.resourceType = "drive" /\ MatchesDrive(share.url)

\* C4 as stated: a submitted URL of YouTube shape with type drive is rejected,
\* one of Drive shape with type youtube is rejected, and one whose shape
\* matches the selected type is accepted
CrossFieldUrlRule_Stated ==
    share.isSubmitted =>
        /\ MatchesYouTube(share.url) /\ share.resourceType = "drive" => UrlRejected
        /\ MatchesDrive(share.url) /\ share.resourceType = "youtube" => UrlRejected
        /\ ShapeMatchesType => ~UrlRejected

\* C4: a submitted URL of YouTube shape with type drive is rejected, one of
\* Drive shape with type youtube is rejected, one whose shape matches the
\* selected type is accepted when it is also an absolute URL with a scheme,
\* and a string that is not an absolute URL is rejected whatever its shape
CrossFieldUrlRule ==
    share.isSubmitted =>
        /\ MatchesYouTube(share.url) /\ share.resourceType = "drive" => UrlRejected
        /\ MatchesDrive(share.url) /\ share.resourceType = "youtube" => UrlRejected
        /\ ShapeMatchesType /\ IsUrl(share.url) => ~UrlRejected
        /\ ~IsUrl(share.url) => UrlRejected

\* C4 witness: the same YouTube URL was rejected with type drive; a URL
\* whose shape matches the selected type was accepted
CrossFieldUrlRule_Witness ==
    /\ share.isSubmitted
    /\ \/ /\ share.url = "https://www.youtube.com/watch?v=abc"
          /\ share.resourceType = "drive"
          /\ UrlRejected
       \/ /\ share.url = "https://drive.google.com/file/d/1"
          /\ share.resourceType = "drive"
          /\ ~UrlRejected

(***************************************************************************)
(* Properties of the subscribed views.                                     *)
(***************************************************************************)
\* the view holds exactly the records of S, each once
Exactly(view, S) ==
    /\ Len(view) = Cardinality(S)
    /\ {view[k] : k \in DOMAIN view} = S

\* C5: while a view is subscribed, whatever writes reach the store and however
\* the store groups them into snapshots, the view eventually holds exactly
\* the records that match its filter (all doubts for the feed, the answers of
\* the open doubt for the answer list, all notes for the library), unless the
\* subscription ends first
SnapshotCompleteness ==
    /\ (feedChan = "open") ~>
          (feedChan # "open" \/ (~feed.loading /\ Exactly(feed.doubts, DocsOf(doubts))))
    /\ (alistChan = "open") ~>
          (alistChan # "open" \/
             (~alist.loading /\
              Exactly(alist.answers, {a \in DocsOf(answers) : a.doubtId = dlg})))
    /\ (libChan = "open") ~>
          (libChan # "open" \/ (~lib.loading /\ Exactly(lib.resources, DocsOf(notes))))

\* C5 witness: after two doubts and an answer were written, the subscribed
\* feed holds both doubts and the subscribed answer list holds the answer
SnapshotCompleteness_Witness ==
    /\ feedChan = "open" /\ ~feedOwed /\ ~feed.loading
    /\ Cardinality(DOMAIN doubts) = 2
    /\ Exactly(feed.doubts, DocsOf(doubts))
    /\ alistChan = "open" /\ ~alistOwed /\ ~alist.loading
    /\ alist.answers # <<>>
    /\ Exactly(alist.answers, {a \in DocsOf(answers) : a.doubtId = dlg})

(***************************************************************************)
(* Properties of the answers of a doubt.                                   *)
(***************************************************************************)
\* the answer list received every snapshot the store owed it
AlistSynced == alistChan = "open" /\ ~alistOwed /\ ~alist.loading

\* C7: the answer list of the open doubt never holds an answer of another
\* doubt and is in ascending creation order; once it has received the
\* snapshots owed to it, it holds exactly the answers whose doubtId is the
\* open doubt, so exactly one record, with the submitted text, when one answer
\* was written for that doubt; a submitted answer is stored with the open
\* doubt's id and the text that was typed
FilterIsolation ==
    /\ [](dlg # NoDoubt =>
            /\ \A k \in DOMAIN alist.answers : alist.answers[k].doubtId = dlg
            /\ \A j, k \in DOMAIN alist.answers :
                   j < k => alist.answers[j].createdAt <= alist.answers[k].createdAt
            /\ AlistSynced =>
                 /\ Exactly(alist.answers, {a \in DocsOf(answers) : a.doubtId = dlg})
                 /\ \A i \in DOMAIN answers :
                       (\A j \in DOMAIN answers : answers[j].doubtId = dlg <=> j = i)
                       => /\ Len(alist.answers) = 1
                          /\ alist.answers[1].text = answers[i].text)
    /\ [][Issued(ansPending, ansPending') =>
            LET call == ansPending'[Len(ansPending')]
            IN  /\ call.fields.doubtId = dlg
                /\ call.fields.text = ansForm'[dlg].answer]_vars

\* C7 witness: two answers are stored, one for the open doubt and one for
\* another doubt, and the answer list holds the one record of the open doubt
FilterIsolation_Witness ==
    /\ dlg # NoDoubt
    /\ AlistSynced
    /\ Cardinality(DOMAIN answers) = 2
    /\ \E i \in DOMAIN answers : answers[i].doubtId # dlg
    /\ Len(alist.answers) = 1
    /\ alist.answers[1].text = "Use a heap."

(***************************************************************************)
(* Properties of the signup page.                                          *)
(***************************************************************************)
\* C9 as stated: a run of onSubmit that returned issued the users/{uid} write
\* exactly once if its identity creation call succeeded and never otherwise
ProfileWriteIffIdentity ==
    signDone # <<>> =>
        /\ signDone[1].created <=> signDone[1].writes = 1
        /\ signDone[1].writes <= 1

\* a run of onSubmit ends in this step with its setDoc rejected
WriteFailedStep ==
    /\ Len(signRuns') < Len(signRuns)
    /\ signDone' # <<>>
    /\ signDone'[1].stage = "write"

\* C10: when identity creation succeeded and the profile write fails, the
\* identity stays registered, no profile is stored, the page still mounted
\* shows the "Signup Incomplete" error and not the "Account Creation Failed"
\* error, the success toast is not shown and the route does not change;
\* identities are never removed
SignupPartialFailure ==
    [][/\ idents \subseteq idents'
       /\ WriteFailedStep =>
            /\ signDone'[1].created
            /\ signDone'[1].values.email \in idents'
            /\ profiles' = profiles
            /\ route' = route
            /\ toast' = toast
            /\ signDone'[1].live =>
                 /\ StartsWith(signup'.error, "Signup Incomplete")
                 /\ ~StartsWith(signup'.error, "Account Creation Failed")
                 /\ ~signup'.loading]_vars

\* C10 witness: the profile write of a run failed: the identity is
\* registered, no profile is stored, the signup page shows the error
SignupPartialFailure_Witness ==
    /\ signDone # <<>>
    /\ signDone[1].stage = "write"
    /\ signDone[1].values.email \in idents
    /\ profiles = <<>>
    /\ route = "/signup"
    /\ StartsWith(signup.error, "Signup Incomplete")

(***************************************************************************)
(* Properties of the dashboard fetch.                                      *)
(***************************************************************************)
\* the step applies results to the dashboard or clears its loading flag
\* while the dashboard stays mounted
ResultsApplied ==
    /\ route = "/dashboard" /\ route' = route
    /\ \/ dash'.list # dash.list
       \/ \E t \in Tabs : dash'.error[t] # dash.error[t] /\ dash'.error[t] # Null
       \/ dash.loading /\ ~dash'.loading

\* C11: the three queries of a run are issued in one step; results are
\* applied and the loading flag is cleared only in a step that ends a run
\* whose three queries have all settled; while the dashboard stays mounted
\* a run leaves the runs in flight only when its three queries have settled,
\* whatever its other queries did
NoShortCircuit ==
    [][/\ Len(fetches') > Len(fetches) =>
            \A t \in Tabs : fetches'[Len(fetches')].results[t].status = "pending"
       /\ ResultsApplied =>
            \E i \in DOMAIN fetches :
                /\ fetches' = RemoveAt(fetches, i)
                /\ \A t \in Tabs : fetches[i].results[t].status # "pending"
       /\ route' = route /\ Len(fetches') < Len(fetches) =>
            \E i \in DOMAIN fetches :
                /\ fetches' = RemoveAt(fetches, i)
                /\ \A t \in Tabs : fetches[i].results[t].status # "pending"]_vars

\* C11 witness: one query of a run was rejected while the other two are
\* pending, and the dashboard is still loading
NoShortCircuit_Witness ==
    /\ route = "/dashboard"
    /\ dash.loading
    /\ \E i \in DOMAIN fetches :
          /\ fetches[i].results["notes"].status = "rejected"
          /\ fetches[i].results["doubts"].status = "pending"
          /\ fetches[i].results["answers"].status = "pending"

(***************************************************************************)
(* Properties of failures and of the stored answers.                       *)
(***************************************************************************)
\* C19: no failure of an authentication or document-store call escapes its
\* call site as an unhandled promise rejection
AllFailuresCaught == unhandled = FALSE

\* C20: the doubtId of every stored answer is the id of a stored doubt
ReferentialValidity ==
    \A a \in DOMAIN answers : answers[a].doubtId \in DOMAIN doubts

\* C20 witness: an answer submitted from the dialog by u1 is in the store
\* (the other client writes as u2)
ReferentialValidity_Witness ==
    \E a \in DOMAIN answers :
        /\ answers[a].userId = "u1"
        /\ answers[a].doubtId \in DOMAIN doubts

(***************************************************************************)
(* Properties of the create calls of the three forms.                      *)
(***************************************************************************)
\* call i of queue q ends in this step
Ends(q, i) == i \in DOMAIN q /\ q' = RemoveAt(q, i)

AskValues(f) == <<f.subject, f.description>>

ShareValues(f) == <<f.topic, f.subject, f.description, f.resourceType, f.url>>

\* C16: a step in which the create call of a mounted form ends without a
\* write leaves the form's values as they were submitted, shows the form's
\* top-level error (the destructive toast for the answer form) and adds no
\* field-level error; a step that ends a call changes the values of a form
\* only when the document was written, and then it clears them
FormPreservedOnFailure ==
    [][/\ \A i \in DOMAIN askPending :
            Ends(askPending, i) =>
              IF doubts' = doubts
              THEN /\ AskValues(ask') = AskValues(ask)
                   /\ askPending[i].live =>
                        /\ ask'.subject = askPending[i].fields.subject
                        /\ ask'.description = askPending[i].fields.description
                        /\ ask'.error # Null
                        /\ ask'.fieldErrors = {}
              ELSE askPending[i].live => AskValues(ask') = AskValues(AskInit)
       /\ \A i \in DOMAIN sharePending :
            Ends(sharePending, i) =>
              IF notes' = notes
              THEN /\ ShareValues(share') = ShareValues(share)
                   /\ sharePending[i].live =>
                        /\ share'.topic = sharePending[i].fields.topic
                        /\ share'.url = sharePending[i].fields.resourceUrl
                        /\ share'.resourceType = sharePending[i].fields.resourceType
                        /\ share'.error # Null
                        /\ share'.fieldErrors = {}
              ELSE sharePending[i].live => ShareValues(share') = ShareValues(ShareInit)
       /\ \A i \in DOMAIN ansPending :
            Ends(ansPending, i) =>
              LET d == ansPending[i].doubtId IN
              IF answers' = answers
              THEN /\ \A e \in DoubtIds : ansForm'[e].answer = ansForm[e].answer
                   /\ toast' = "Could not submit your answer."
                   /\ ansPending[i].live =>
                        ansForm'[d].answer = ansPending[i].fields.text
              ELSE ansPending[i].live => ansForm'[d].answer = ""]_vars

\* C16 witness: the ask form after its create call failed, still holding
\* the submitted values under the top-level error
FormPreservedOnFailure_Witness ==
    /\ route = "/ask-doubt"
    /\ ask.error # Null
    /\ ~ask.isSubmitting
    /\ ask.subject = "DSA"
    /\ ask.description = "What is a red-black tree?"
    /\ askPending = <<>>
    /\ doubts = <<>>

\* the calls of queue q that belong to the mounted form
LiveCalls(q) == {i \in DOMAIN q : q[i].live}

\* C17: a form has a call in flight exactly while its submit is running and
\* never more than one, so a form showing the error of a failed call has
\* none; a call is added only by a submit step of a configured client, one
\* at a time, carrying the schema-valid values of the form
OneCallNoRetry ==
    /\ [](/\ Cardinality(LiveCalls(askPending)) = (IF ask.isSubmitting THEN 1 ELSE 0)
          /\ Cardinality(LiveCalls(sharePending)) = (IF share.isSubmitting THEN 1 ELSE 0)
          /\ ask.error # Null => LiveCalls(askPending) = {}
          /\ share.error # Null => LiveCalls(sharePending) = {})
    /\ [][/\ Len(askPending') > Len(askPending) =>
               /\ configured
               /\ ~ask.isSubmitting /\ ask'.isSubmitting
               /\ DoubtSchemaOk([subject |-> ask'.subject,
                                 description |-> ask'.description])
               /\ askPending' = Append(askPending,
                      [fields |-> DoubtFields(user, ask'), live |-> TRUE])
          /\ Len(sharePending') > Len(sharePending) =>
               /\ configured
               /\ ~share.isSubmitting /\ share'.isSubmitting
               /\ ShareSchemaOk([topic |-> share'.topic, subject |-> share'.subject,
                                 description |-> share'.description,
                                 resourceType |-> share'.resourceType,
                                 url |-> share'.url])
               /\ sharePending' = Append(sharePending,
                      [fields |-> NoteFields(user, share'), live |-> TRUE])
          /\ (\E i \in DOMAIN askPending : Ends(askPending, i))
               => sharePending' = sharePending /\ ansPending' = ansPending
          /\ (\E i \in DOMAIN sharePending : Ends(sharePending, i))
               => askPending' = askPending /\ ansPending' = ansPending]_vars

\* C17 witness: the share form after its one call failed: the error is
\* shown and no call is in flight
OneCallNoRetry_Witness ==
    /\ route = "/upload-notes"
    /\ share.error # Null
    /\ share.isSubmitted
    /\ sharePending = <<>>
    /\ notes = <<>>

(***************************************************************************)
(* Properties of subscription and query failures.                          *)
(***************************************************************************)
\* C13: a view whose subscription has failed shows its error state, and
\* neither data nor the empty state, for as long as that subscription is
\* the view's subscription
StickySubscriptionError ==
    /\ feedChan = "failed" => FeedView = "error"
    /\ alistChan = "failed" => AlistView = "error"
    /\ libChan = "failed" => LibView = {"error"}

\* the answer list and the library keep their error state after a failure
StickyWhereHeld ==
    /\ alistChan = "failed" => AlistView = "error"
    /\ libChan = "failed" => LibView = {"error"}

\* the alert text gives the index guidance
IndexGuidance ==
    {"This feature requires a database index.",
     "Action Required: Database Query Failed. This usually happens because a required database index is missing."}

\* C14: a failure other than 'failed-precondition' is shown without the
\* index guidance, and a 'failed-precondition' failure with it, on the
\* answer list and on every dashboard tab
PreconditionDistinguished ==
    /\ alistChan = "failed" =>
          (alist.fetchError \in IndexGuidance
             <=> alist.fetchError = "This feature requires a database index.")
    /\ \A t \in Tabs :
          dash.error[t] # Null =>
             (IndexErrorMessage(dash.error[t]) \in IndexGuidance
                <=> dash.error[t] = "The query requires an index.")

(***************************************************************************)
(* Properties of a client whose backend was never initialised.             *)
(***************************************************************************)
\* no call to the authentication service or the document store is in
\* flight and no listener is subscribed
NoBackendCall ==
    /\ askPending = <<>> /\ sharePending = <<>> /\ ansPending = <<>>
    /\ resolvePending = <<>> /\ signRuns = <<>> /\ loginPending = <<>>
    /\ fetches = <<>>
    /\ feedChan = "none" /\ alistChan = "none" /\ libChan = "none"

\* C18: while the backend is not configured no operation issues a backend
\* call, and the doubts page shows a configuration error in place of its
\* loading or empty view
ConfigurationShortCircuit ==
    ~configured =>
        /\ NoBackendCall
        /\ route = "/doubts" => FeedView \notin {"loading", "empty"}

\* an unconfigured client never has a backend call in flight
UnconfiguredIssuesNothing == ~configured => NoBackendCall

(***************************************************************************)
(* Properties of the lists the doubts page holds while it writes.          *)
(***************************************************************************)
\* C15: the list of doubts held by the feed changes only in a step that
\* delivers a snapshot of the doubts query, and the list of answers held by
\* the open dialog only in a step that delivers a snapshot of its answers
\* query (or when the view is mounted or torn down); a step that issues or
\* completes the resolve update or the answer create call leaves both lists
\* as they were
NoOptimisticUpdate ==
    [][/\ feed'.doubts # feed.doubts =>
            \/ route' # route
            \/ feedOwed /\ ~feedOwed' /\ doubts' = doubts
                        /\ feed'.doubts = DoubtsQuery
       /\ alist'.answers # alist.answers =>
            \/ route' # route
            \/ dlg' # dlg
            \/ alistOwed /\ ~alistOwed' /\ answers' = answers
                         /\ alist'.answers = AnswersQuery(dlg)
       /\ (resolvePending' # resolvePending \/ ansPending' # ansPending)
             /\ route' = route /\ dlg' = dlg =>
            feed'.doubts = feed.doubts /\ alist'.answers = alist.answers]_vars

\* C15 witness: the author's update has resolved the doubt in the store and
\* the author's answer is stored, while the feed still holds the doubt as
\* unresolved and the open dialog still holds no answer
NoOptimisticUpdate_Witness ==
    /\ route = "/doubts"
    /\ dlg # NoDoubt
    /\ \E k \in DOMAIN feed.doubts :
          /\ ~feed.doubts[k].isResolved
          /\ doubts[feed.doubts[k].id].isResolved
    /\ \E a \in DOMAIN answers :
          /\ answers[a].doubtId = dlg
          /\ answers[a].userId = "u1"
    /\ ~alist.loading
    /\ alist.answers = <<>>

(***************************************************************************)
(* Properties of the write calls in flight.                                *)
(***************************************************************************)
\* C26: no two update calls for the same doubt are in flight together, and
\* no mounted form has two create calls in flight
OneMutationAtATime ==
    /\ \A i, j \in DOMAIN resolvePending :
          i # j => resolvePending[i].doubtId # resolvePending[j].doubtId
    /\ Cardinality(LiveCalls(askPending)) <= 1
    /\ Cardinality(LiveCalls(sharePending)) <= 1
    /\ \A d \in DoubtIds :
          Cardinality({i \in LiveCalls(ansPending) : ansPending[i].doubtId = d}) <= 1

\* a mounted form never has two create calls in flight
OneCreatePerForm ==
    /\ Cardinality(LiveCalls(askPending)) <= 1
    /\ Cardinality(LiveCalls(sharePending)) <= 1
    /\ \A d \in DoubtIds :
          Cardinality({i \in LiveCalls(ansPending) : ansPending[i].doubtId = d}) <= 1

\* the call the step adds to queue q carries the signed-in user as userId
AddsOwnCall(q, qNext) ==
    Len(qNext) > Len(q) =>
        /\ user # NoUser
        /\ qNext = Append(q, qNext[Len(qNext)])
        /\ qNext[Len(qNext)].fields.userId = user

\* the documents the step adds to coll take their userId from a call of q
StoresCallAuthor(coll, collNext, q) ==
    \A d \in DOMAIN collNext \ DOMAIN coll :
        \E i \in DOMAIN q : collNext[d].userId = q[i].fields.userId

\* C27: a create call for a doubt, a resource or an answer is added only
\* while a user is signed in and carries that user's uid as userId; a
\* stored document has the userId of the call that created it, so no
\* document and no call has the userId of nobody
Authorship ==
    /\ [](/\ \A d \in DOMAIN doubts : doubts[d].userId \in Users
          /\ \A n \in DOMAIN notes : notes[n].userId \in Users
          /\ \A a \in DOMAIN answers : answers[a].userId \in Users)
    /\ [][/\ AddsOwnCall(askPending, askPending')
          /\ AddsOwnCall(sharePending, sharePending')
          /\ AddsOwnCall(ansPending, ansPending')
          /\ StoresCallAuthor(doubts, doubts', askPending)
          /\ StoresCallAuthor(notes, notes', sharePending)
          /\ StoresCallAuthor(answers, answers', ansPending)]_vars

\* C27 witness: an answer submitted by u2 was stored after the signed-in
\* user changed to u1; it carries u2
Authorship_Witness ==
    /\ route = "/doubts"
    /\ user = "u1"
    /\ \E a \in DOMAIN answers : answers[a].userId = "u2"

(***************************************************************************)
(* Properties of an identity left without its profile document.            *)
(***************************************************************************)
Emails == {v.email : v \in SignupInputs}

\* the identity of email e exists, users/{uid} does not, and no signup run
\* that created the identity is still in progress
Orphan(e) ==
    /\ e \in idents
    /\ Uid(e) \notin DOMAIN profiles
    /\ \A i \in DOMAIN signRuns :
          ~(signRuns[i].values.email = e /\ signRuns[i].created)

\* C30: an identity left without its users/{uid} document stays without
\* it: no step creates the document or lets a later signup run with that
\* email pass identity creation; and a step that issues or ends a login
\* call leaves the profiles as they were
PartialFailurePermanent ==
    [][/\ \A e \in Emails : Orphan(e) => Orphan(e)'
       /\ loginPending' # loginPending => profiles' = profiles]_vars

\* C30 witness: signup was submitted again with the email of an identity
\* that has no profile document, and was refused at identity creation
PartialFailurePermanent_Witness ==
    /\ route = "/signup"
    /\ signRuns = <<>>
    /\ signDone # <<>>
    /\ Orphan(signup.email)
    /\ signup.error = CreationFailed("auth/email-already-in-use")

(***************************************************************************)
(* Properties of the submitting flags.                                     *)
(***************************************************************************)
\* C29: when the calls in flight settle, a submitting or loading flag that
\* is set is cleared again, for the login, signup, ask, share and answer
\* forms
SubmitFlagReleased ==
    /\ ask.isSubmitting ~> ~ask.isSubmitting
    /\ share.isSubmitting ~> ~share.isSubmitting
    /\ signup.loading ~> ~signup.loading
    /\ login.loading ~> ~login.loading
    /\ \A d \in DoubtIds : ansForm[d].isSubmitting ~> ~ansForm[d].isSubmitting

\* C29 witness: the answer form of a mounted dialog after its create call
\* failed: the text is kept and the button is enabled again
SubmitFlagReleased_Witness ==
    /\ route = "/doubts"
    /\ dlg # NoDoubt
    /\ toast = "Could not submit your answer."
    /\ ansForm[dlg].answer = "Use a heap."
    /\ ~ansForm[dlg].isSubmitting
    /\ ansPending = <<>>

(***************************************************************************)
(* Properties of the dashboard's effect running again.                     *)
(***************************************************************************)
\* C25: when every query settles, a dashboard that is loading for a
\* signed-in user leaves the loading state, whatever the three queries
\* returned
DashFetchResolves ==
    (route = "/dashboard" /\ user # NoUser /\ dash.loading) ~> ~dash.loading

\* C25 witness: the dashboard left the loading state after a run in which
\* one query was fulfilled and two were rejected
DashFetchResolves_Witness ==
    /\ route = "/dashboard"
    /\ user # NoUser
    /\ ~dash.loading
    /\ fetches = <<>>
    /\ dash.error["doubts"] = Null
    /\ dash.error["notes"] = "Missing or insufficient permissions."
    /\ dash.error["answers"] = "Missing or insufficient permissions."

\* C28: once no run is in flight, every tab of the dashboard that shows no
\* error holds the result of its query for the signed-in user
NoStaleResults ==
    (route = "/dashboard" /\ user # NoUser /\ fetches = <<>> /\ ~dash.loading) =>
        \A t \in Tabs :
            dash.error[t] = Null => dash.list[t] = DashQuery(t, user)

====
